---------------------------- MODULE Spec2Model ----------------------------
(***************************************************************************)
(* Extraction-and-ranking pipeline of the supplier scraper (src/final.py): *)
(*   extract_webpage_text       bounded-retry page retrieval               *)
(*   chat_with_openai           LLM call with its exception handler        *)
(*   rank_suppliers             JSON extraction, clamp/default, total      *)
(*   format_deep_scrape_output  canonical section formatter                *)
(*   deep_scrape_website        the lru_cache'd composition                *)
(* Text is a sequence of one-character strings, so that substring tests,   *)
(* split, strip and slicing are computed as Python computes them.          *)
(***************************************************************************)
EXTENDS Integers, Sequences, FiniteSets, TLC

VARIABLES
    f_retries,   \* extract_webpage_text: the retries argument
    f_resp,      \* extract_webpage_text: what each successive GET meets
    f_out,       \* extract_webpage_text: the finished call, or NotRun
    t_in,        \* format_deep_scrape_output: the input text
    t_out,       \* format_deep_scrape_output: format(t_in), or NotRun
    t_out2,      \* format_deep_scrape_output: format(format(t_in)), or NotRun
    r_in,        \* rank_suppliers: the LLM outcome of its one call
    r_out,       \* rank_suppliers: the finished call, or NotRun
    r_out10,     \* rank_suppliers of ui10.py: the finished call, or NotRun
    ranking_results,  \* st.session_state["ranking_results"]: website -> ranking
    s_last,      \* the session: the last handler or display step, or NotRun
    cache,       \* lru_cache of deep_scrape_website: its entries, least recent first
    last,        \* the last deep_scrape_website call, or NotRun
    prev,        \* per url: the previous call for it (history)
    since,       \* per url: the other urls called since its previous call
    inflight     \* per concurrent caller: its deep_scrape_website call

vars == <<f_retries, f_resp, f_out, t_in, t_out, t_out2, r_in, r_out, r_out10,
          ranking_results, s_last,
          cache, last, prev, since, inflight>>

fetchVars  == <<f_retries, f_resp, f_out>>
formatVars == <<t_in, t_out, t_out2>>
rankVars   == <<r_in, r_out, r_out10, ranking_results, s_last>>
cacheVars  == <<cache, last, prev, since, inflight>>

\* Python's None, and a value that is present
None == <<>>
Some(x) == <<x>>
NotRun == [run |-> FALSE]

\* the parts of the state a specification does not use
FetchIdle  == f_retries = 0 /\ f_resp = <<>> /\ f_out = NotRun
FormatIdle == t_in = <<>> /\ t_out = NotRun /\ t_out2 = NotRun
RankIdle   ==
    /\ r_in = NotRun /\ r_out = NotRun /\ r_out10 = NotRun
    /\ ranking_results = <<>> /\ s_last = NotRun
CacheIdle  ==
    cache = <<>> /\ last = NotRun /\ prev = <<>> /\ since = <<>> /\ inflight = <<>>

Min(a, b) == IF a < b THEN a ELSE b
Max(a, b) == IF a > b THEN a ELSE b

(***************************************************************************)
(* extract_webpage_text                                                    *)
(***************************************************************************)
\* what one requests.get can meet: an HTTP response with a status code and
\* the visible text of its body, or a RequestException
Http(status, text) == [kind |-> "http", status |-> status, text |-> text]
NetworkError == [kind |-> "exc", status |-> 0, text |-> <<>>]

BLOCK_WAIT == 5
ERROR_WAIT == 3
DEFAULT_RETRIES == 3

\* treats every non-200 status as a block signal: waits and tries again
RECURSIVE fetch_loop_retry_status(_, _, _, _)
fetch_loop_retry_status(resp, retries, attempt, st) ==
    IF attempt >= retries
    THEN [st EXCEPT !.ret = None, !.msgs = Append(@, "exhausted")]
    ELSE LET response == resp[attempt + 1]
             got == [st EXCEPT !.gets = @ + 1]
         IN  IF response.kind = "exc"
             THEN fetch_loop_retry_status(resp, retries, attempt + 1,
                      [got EXCEPT !.waited = @ + ERROR_WAIT,
                                  !.msgs = Append(@, "network")])
             ELSE IF response.status = 200
             THEN [got EXCEPT !.ret = Some(response.text)]
             ELSE fetch_loop_retry_status(resp, retries, attempt + 1,
                      [got EXCEPT !.waited = @ + BLOCK_WAIT,
                                  !.msgs = Append(@, "denied")])

\* sleeps longer after each attempt: 5 s, 10 s, 15 s after block signals
RECURSIVE fetch_loop_backoff(_, _, _, _)
fetch_loop_backoff(resp, retries, attempt, st) ==
    IF attempt >= retries
    THEN [st EXCEPT !.ret = None, !.msgs = Append(@, "exhausted")]
    ELSE LET response == resp[attempt + 1]
             got == [st EXCEPT !.gets = @ + 1]
         IN  IF response.kind = "exc"
             THEN fetch_loop_backoff(resp, retries, attempt + 1,
                      [got EXCEPT !.waited = @ + ERROR_WAIT,
                                  !.msgs = Append(@, "network")])
             ELSE IF response.status = 200
             THEN [got EXCEPT !.ret = Some(response.text)]
             ELSE IF response.status \in {403, 429}
             THEN fetch_loop_backoff(resp, retries, attempt + 1,
                      [got EXCEPT !.waited = @ + BLOCK_WAIT * (attempt + 1),
                                  !.msgs = Append(@, "denied")])
             ELSE [got EXCEPT !.ret = None, !.msgs = Append(@, "status")]

\* the state of the for loop after the attempts 0..attempt-1:
\* gets = GET requests issued, waited = seconds slept, msgs = st.* reports
RECURSIVE fetch_loop(_, _, _, _)
fetch_loop(resp, retries, attempt, st) ==
    IF attempt >= retries
    THEN [st EXCEPT !.ret = None, !.msgs = Append(@, "exhausted")]
    ELSE LET response == resp[attempt + 1]
             got == [st EXCEPT !.gets = @ + 1]
         IN  IF response.kind = "exc"
             THEN fetch_loop(resp, retries, attempt + 1,
                      [got EXCEPT !.waited = @ + ERROR_WAIT,
                                  !.msgs = Append(@, "network")])
             ELSE IF response.status = 200
             THEN [got EXCEPT !.ret = Some(response.text)]
             ELSE IF response.status \in {403, 429}
             THEN fetch_loop(resp, retries, attempt + 1,
                      [got EXCEPT !.waited = @ + BLOCK_WAIT,
                                  !.msgs = Append(@, "denied")])
             ELSE [got EXCEPT !.ret = None, !.msgs = Append(@, "status")]

\* gives up after the first attempt (the final return inside the loop)
extract_webpage_text_once(resp, retries) ==
    fetch_loop(resp, Min(retries, 1), 0,
               [ret |-> None, gets |-> 0, waited |-> 0, msgs |-> <<>>])

\* range(1, retries): one attempt short
extract_webpage_text_short(resp, retries) ==
    fetch_loop(resp, retries, 1,
               [ret |-> None, gets |-> 0, waited |-> 0, msgs |-> <<>>])

extract_webpage_text(resp, retries) ==
    fetch_loop(resp, retries, 0,
               [ret |-> None, gets |-> 0, waited |-> 0, msgs |-> <<>>])

(***************************************************************************)
(* The retriever on its own: retries and the responses of the successive   *)
(* GET requests are drawn, then the call runs.                             *)
(***************************************************************************)
MaxRetries == 3

PageText == <<"A","c","m","e"," ","L","t","d">>

Responses == {Http(200, PageText), Http(200, <<>>), Http(403, <<>>), Http(429, <<>>),
              Http(404, <<>>), Http(500, <<>>), NetworkError}

InitFetch ==
    /\ f_retries \in 0..MaxRetries
    /\ f_resp \in [1..f_retries -> Responses]
    /\ f_out = NotRun
    /\ FormatIdle /\ RankIdle /\ CacheIdle

\* extract_webpage_text(url, f_retries)
Fetch ==
    /\ f_out = NotRun
    /\ f_out' = [run |-> TRUE, call |-> extract_webpage_text(f_resp, f_retries)]
    /\ UNCHANGED <<f_retries, f_resp, formatVars, rankVars, cacheVars>>

NextFetch == Fetch

SpecFetch == InitFetch /\ [][NextFetch]_vars

(***************************************************************************)
(* Text: Python str as a sequence of one-character strings                 *)
(***************************************************************************)
\* str.lower() on the letters A-Z (every other character is unchanged)
LowerMap ==
    ("A" :> "a") @@ ("B" :> "b") @@ ("C" :> "c") @@ ("D" :> "d") @@ ("E" :> "e") @@ ("F" :> "f")
    @@ ("G" :> "g") @@ ("H" :> "h") @@ ("I" :> "i") @@ ("J" :> "j") @@ ("K" :> "k") @@ ("L" :> "l")
    @@ ("M" :> "m") @@ ("N" :> "n") @@ ("O" :> "o") @@ ("P" :> "p") @@ ("Q" :> "q") @@ ("R" :> "r")
    @@ ("S" :> "s") @@ ("T" :> "t") @@ ("U" :> "u") @@ ("V" :> "v") @@ ("W" :> "w") @@ ("X" :> "x")
    @@ ("Y" :> "y") @@ ("Z" :> "z")

LowerChar(c) == IF c \in DOMAIN LowerMap THEN LowerMap[c] ELSE c
Lower(s) == [i \in 1..Len(s) |-> LowerChar(s[i])]

\* p in s
Contains(s, p) ==
    \E i \in 0..(Len(s) - Len(p)) : \A j \in 1..Len(p) : s[i + j] = p[j]

\* the characters str.strip() removes
Whitespace == {" ", "\t", "\r", "\n"}

RECURSIVE LStrip(_)
LStrip(s) == IF s # <<>> /\ Head(s) \in Whitespace THEN LStrip(Tail(s)) ELSE s
RECURSIVE RStrip(_)
RStrip(s) ==
    IF s # <<>> /\ s[Len(s)] \in Whitespace
    THEN RStrip(SubSeq(s, 1, Len(s) - 1)) ELSE s
Strip(s) == RStrip(LStrip(s))

\* s.split(sep) for a one-character sep: one piece more than separators
Split(s, sep) ==
    LET at == {i \in 1..Len(s) : s[i] = sep}
        \* the position of the k-th separator; 0 and Len(s) + 1 bound the text
        pos(k) == IF k = 0 THEN 0
                  ELSE IF k > Cardinality(at) THEN Len(s) + 1
                  ELSE CHOOSE i \in at : Cardinality({j \in at : j < i}) = k - 1
    IN  [k \in 1..(Cardinality(at) + 1) |-> SubSeq(s, pos(k - 1) + 1, pos(k) - 1)]

\* sep.join(items)
RECURSIVE Join(_, _)
Join(items, sep) ==
    IF items = <<>> THEN <<>>
    ELSE IF Len(items) = 1 THEN items[1]
    ELSE items[1] \o sep \o Join(Tail(items), sep)

\* s.split(':', 1)[1], for s that contains ':'
AfterFirst(s, c) ==
    LET i == CHOOSE k \in 1..Len(s) : s[k] = c /\ \A m \in 1..(k - 1) : s[m] # c
    IN  SubSeq(s, i + 1, Len(s))

\* s[n:]
SliceFrom(s, n) == SubSeq(s, n + 1, Len(s))

\* str(n) for n >= 0
Digits == <<"0", "1", "2", "3", "4", "5", "6", "7", "8", "9">>
RECURSIVE Str(_)
Str(n) == IF n < 10 THEN <<Digits[n + 1]>>
          ELSE Str(n \div 10) \o <<Digits[(n % 10) + 1]>>

(***************************************************************************)
(* format_deep_scrape_output                                               *)
(***************************************************************************)
KeyPhoneNumber == <<"P","h","o","n","e"," ","N","u","m","b","e","r">>
KeyEmail == <<"E","m","a","i","l">>
KeySupplierDetails == <<"S","u","p","p","l","i","e","r"," ","D","e","t","a","i","l","s">>
KeyLocation == <<"L","o","c","a","t","i","o","n">>
KeyProductPricing == <<"P","r","o","d","u","c","t"," ","P","r","i","c","i","n","g">>
KeyISOCertifications == <<"I","S","O"," ","C","e","r","t","i","f","i","c","a","t","i","o","n","s">>
KeyManufacturingProcessSummary == <<"M","a","n","u","f","a","c","t","u","r","i","n","g"," ","P","r","o","c","e","s","s"," ","S","u","m","m","a","r","y">>
NamePhoneNumbers == <<"P","h","o","n","e"," ","N","u","m","b","e","r","s">>
NameEmails == <<"E","m","a","i","l","s">>

\* the dict with "Supplier Details" inserted before "Email"
sections_detailsfirst == <<
    [key |-> KeyPhoneNumber, display_name |-> NamePhoneNumbers],
    [key |-> KeySupplierDetails, display_name |-> KeySupplierDetails],
    [key |-> KeyEmail, display_name |-> NameEmails],
    [key |-> KeyLocation, display_name |-> KeyLocation],
    [key |-> KeyProductPricing, display_name |-> KeyProductPricing],
    [key |-> KeyISOCertifications, display_name |-> KeyISOCertifications],
    [key |-> KeyManufacturingProcessSummary, display_name |-> KeyManufacturingProcessSummary]
    >>

\* the sections dict, in its insertion order: key -> display_name
sections == <<
    [key |-> KeyPhoneNumber, display_name |-> NamePhoneNumbers],
    [key |-> KeyEmail, display_name |-> NameEmails],
    [key |-> KeySupplierDetails, display_name |-> KeySupplierDetails],
    [key |-> KeyLocation, display_name |-> KeyLocation],
    [key |-> KeyProductPricing, display_name |-> KeyProductPricing],
    [key |-> KeyISOCertifications, display_name |-> KeyISOCertifications],
    [key |-> KeyManufacturingProcessSummary, display_name |-> KeyManufacturingProcessSummary]
    >>

TxtError == <<"E","r","r","o","r">>
TxtSupplierDetailsLower == <<"s","u","p","p","l","i","e","r"," ","d","e","t","a","i","l","s">>
TxtMarker == <<"M","u","l","t","i","p","l","e"," ","S","u","p","p","l","i","e","r","s"," ","D","e","t","e","c","t","e","d"," ","o","n"," ","t","h","i","s"," ","W","e","b","s","i","t","e">>
TxtNoIso == <<"N","o"," ","I","S","O"," ","c","e","r","t","i","f","i","c","a","t","i","o","n","s"," ","m","e","n","t","i","o","n","e","d",".">>
TxtContact == <<"P","l","e","a","s","e"," ","c","o","n","t","a","c","t"," ","t","h","e"," ","s","u","p","p","l","i","e","r"," ","f","o","r"," ","d","e","t","a","i","l","s",".">>
TxtNotSpecified == <<"N","o","t"," ","s","p","e","c","i","f","i","e","d"," ","i","n"," ","t","h","e"," ","t","e","x","t",".">>
TxtNotFound == <<"N","o","t"," ","f","o","u","n","d"," ","i","n"," ","t","h","e"," ","t","e","x","t",".">>
TxtNoStructured == <<"N","o"," ","s","t","r","u","c","t","u","r","e","d"," ","d","a","t","a"," ","e","x","t","r","a","c","t","e","d",".">>
Stars == <<"*", "*">>
NL == <<"\n">>

\* f"**{display_name}**: {content}"
SectionLine(display_name, content) ==
    Stars \o display_name \o Stars \o <<":", " ">> \o content

\* f"**Supplier {supplier_index} Details**: {content}"
SupplierLine(supplier_index, content) ==
    Stars \o <<"S","u","p","p","l","i","e","r"," ">> \o Str(supplier_index)
          \o <<" ","D","e","t","a","i","l","s">> \o Stars \o <<":", " ">> \o content

\* multiple_suppliers = len([line for line in lines
\*                           if "supplier details" in line.lower()]) > 1
supplier_lines(lines) ==
    {i \in 1..Len(lines) : Contains(Lower(lines[i]), TxtSupplierDetailsLower)}
multiple_suppliers(lines) == Cardinality(supplier_lines(lines)) > 1

\* takes the last matching section instead of the first
MatchIndex_last(line) ==
    LET low == Lower(line)
        hits == {i \in 1..Len(sections) : Contains(low, Lower(sections[i].key))}
    IN  IF hits = {} THEN 0 ELSE CHOOSE i \in hits : \A j \in hits : i >= j

\* for key, display_name in sections.items(): if key.lower() in line.lower()
\* the index of the first section that matches; 0 when the for-else runs
MatchIndex(line) ==
    LET low == Lower(line)
        hits == {i \in 1..Len(sections) : Contains(low, Lower(sections[i].key))}
    IN  IF hits = {} THEN 0 ELSE CHOOSE i \in hits : \A j \in hits : i <= j

\* line.split(':', 1)[1].strip() if ':' in line else line[len(key):].strip()
Content(line, key) ==
    IF Contains(line, <<":">>) THEN Strip(AfterFirst(line, ":"))
    ELSE Strip(SliceFrom(line, Len(key)))

\* current_section starts as the first section instead of None
FormatStart_firstsection(lines) ==
    [multiple         |-> multiple_suppliers(lines),
     formatted_output |-> IF multiple_suppliers(lines) THEN <<TxtMarker>> ELSE <<>>,
     current_section  |-> NamePhoneNumbers,
     supplier_index   |-> 0,
     supplier_data    |-> <<>>,
     exc              |-> None]

\* the locals of format_deep_scrape_output before its line loop;
\* supplier_data has the keys 1..Len(supplier_data), exc is a raised exception
FormatStart(lines) ==
    [multiple         |-> multiple_suppliers(lines),
     formatted_output |-> IF multiple_suppliers(lines) THEN <<TxtMarker>> ELSE <<>>,
     current_section  |-> None,
     supplier_index   |-> 0,
     supplier_data    |-> <<>>,
     exc              |-> None]

\* joins a continuation line to the last output line without the space
FormatLine_nospace(st, rawline) ==
    LET line == Strip(rawline)
        m == MatchIndex(line)
    IN  IF st.exc # None \/ line = <<>> THEN st
        ELSE IF m # 0
        THEN LET display_name == sections[m].display_name
                 content == Content(line, sections[m].key)
             IN  IF Contains(display_name, KeySupplierDetails) /\ st.multiple
                 THEN [st EXCEPT
                         !.current_section = display_name,
                         !.supplier_index = @ + 1,
                         !.supplier_data =
                             Append(@, <<SupplierLine(st.supplier_index + 1, content)>>)]
                 ELSE [st EXCEPT
                         !.current_section = display_name,
                         !.formatted_output = Append(@, SectionLine(display_name, content))]
        ELSE IF st.current_section = None THEN st
        ELSE IF st.multiple /\ st.current_section = KeySupplierDetails
        THEN IF st.supplier_index \in 1..Len(st.supplier_data)
             THEN [st EXCEPT !.supplier_data[st.supplier_index] =
                                 Append(@, <<" ", " ", "-", " ">> \o line)]
             ELSE [st EXCEPT !.exc = Some("KeyError")]
        ELSE IF st.formatted_output # <<>>
             THEN [st EXCEPT !.formatted_output[Len(st.formatted_output)] =
                                 @ \o line]
             ELSE [st EXCEPT !.exc = Some("IndexError")]

\* one iteration of "for line in lines"
FormatLine(st, rawline) ==
    LET line == Strip(rawline)
        m == MatchIndex(line)
    IN  IF st.exc # None \/ line = <<>> THEN st
        ELSE IF m # 0
        THEN LET display_name == sections[m].display_name
                 content == Content(line, sections[m].key)
             IN  IF Contains(display_name, KeySupplierDetails) /\ st.multiple
                 THEN [st EXCEPT
                         !.current_section = display_name,
                         !.supplier_index = @ + 1,
                         !.supplier_data =
                             Append(@, <<SupplierLine(st.supplier_index + 1, content)>>)]
                 ELSE [st EXCEPT
                         !.current_section = display_name,
                         !.formatted_output = Append(@, SectionLine(display_name, content))]
        ELSE IF st.current_section = None THEN st
        ELSE IF st.multiple /\ st.current_section = KeySupplierDetails
        THEN IF st.supplier_index \in 1..Len(st.supplier_data)
             THEN [st EXCEPT !.supplier_data[st.supplier_index] =
                                 Append(@, <<" ", " ", "-", " ">> \o line)]
             ELSE [st EXCEPT !.exc = Some("KeyError")]
        ELSE IF st.formatted_output # <<>>
             THEN [st EXCEPT !.formatted_output[Len(st.formatted_output)] =
                                 @ \o <<" ">> \o line]
             ELSE [st EXCEPT !.exc = Some("IndexError")]

\* the locals after the first k lines
RECURSIVE FormatLoop(_, _)
FormatLoop(lines, k) ==
    IF k = 0 THEN FormatStart(lines)
    ELSE FormatLine(FormatLoop(lines, k - 1), lines[k])

\* for idx, details in supplier_data.items(): formatted_output.extend(details)
RECURSIVE Flatten(_)
Flatten(blocks) == IF blocks = <<>> THEN <<>> ELSE Head(blocks) \o Flatten(Tail(blocks))

DefaultText(display_name) ==
    IF display_name = KeyISOCertifications THEN TxtNoIso
    ELSE IF display_name = KeyManufacturingProcessSummary THEN TxtContact
    ELSE IF display_name = KeyLocation THEN TxtNotSpecified
    ELSE TxtNotFound

\* counts the header of an indexed supplier block as the Supplier Details section
Present_blocks(display_name, out) ==
    \E i \in 1..Len(out) :
        \/ Contains(out[i], display_name)
        \/ /\ display_name = KeySupplierDetails
           /\ Contains(out[i], <<" ","D","e","t","a","i","l","s","*","*",":">>)

\* any(display_name in item for item in formatted_output)
Present(display_name, out) == \E i \in 1..Len(out) : Contains(out[i], display_name)

\* the defaults loop is left out
AddDefaults_none(out, k) == out

\* for display_name in sections.values(): append the default when absent
RECURSIVE AddDefaults(_, _)
AddDefaults(out, k) ==
    IF k > Len(sections) THEN out
    ELSE LET display_name == sections[k].display_name
         IN  IF Present(display_name, out) THEN AddDefaults(out, k + 1)
             ELSE AddDefaults(
                     Append(out, SectionLine(display_name, DefaultText(display_name))),
                     k + 1)

\* starts the defaults loop at the second section
FormatLines_skip(result) ==
    LET lines == Split(result, "\n")
        st == FormatLoop(lines, Len(lines))
        body == IF st.multiple THEN st.formatted_output \o Flatten(st.supplier_data)
                ELSE st.formatted_output
    IN  AddDefaults(body, 2)

\* puts the supplier blocks before the flat section lines
FormatLines_blocksfirst(result) ==
    LET lines == Split(result, "\n")
        st == FormatLoop(lines, Len(lines))
        body == IF st.multiple
                THEN <<TxtMarker>> \o Flatten(st.supplier_data) \o Tail(st.formatted_output)
                ELSE st.formatted_output
    IN  AddDefaults(body, 1)

\* formatted_output at the return statement, for a result without "Error"
FormatLines(result) ==
    LET lines == Split(result, "\n")
        st == FormatLoop(lines, Len(lines))
        body == IF st.multiple THEN st.formatted_output \o Flatten(st.supplier_data)
                ELSE st.formatted_output
    IN  AddDefaults(body, 1)

\* looks for "error" in any case
format_deep_scrape_output_anycase(result) ==
    IF Contains(Lower(result), Lower(TxtError)) THEN [exc |-> None, ret |-> result]
    ELSE LET lines == Split(result, "\n")
             st == FormatLoop(lines, Len(lines))
             out == FormatLines(result)
         IN  IF st.exc # None THEN [exc |-> st.exc, ret |-> <<>>]
             ELSE [exc |-> None,
                   ret |-> IF out # <<>> THEN Join(out, NL) ELSE TxtNoStructured]

\* the call: [exc |-> the exception it raised or None, ret |-> its return value]
format_deep_scrape_output(result) ==
    IF Contains(result, TxtError) THEN [exc |-> None, ret |-> result]
    ELSE LET lines == Split(result, "\n")
             st == FormatLoop(lines, Len(lines))
             out == FormatLines(result)
         IN  IF st.exc # None THEN [exc |-> st.exc, ret |-> <<>>]
             ELSE [exc |-> None,
                   ret |-> IF out # <<>> THEN Join(out, NL) ELSE TxtNoStructured]

(***************************************************************************)
(* The formatter on its own: the reply text is drawn line by line from     *)
(* LineMenu, formatted, and the output formatted again.                    *)
(***************************************************************************)
MaxLines == 3

\* what chat_with_openai returns after an exception of the API call
TxtApiError == <<"S","o","r","r","y",","," ","I"," ","c","o","u","l","d","n","'","t"," ","p","r","o","c","e","s","s"," ","t","h","a","t"," ","r","e","q","u","e","s","t"," ","d","u","e"," ","t","o"," ","a","n"," ","A","P","I"," ","e","r","r","o","r",".">>

LinePhone == <<"P","h","o","n","e"," ","N","u","m","b","e","r",":"," ","1","2">>
LineEmailSupplier == <<"E","m","a","i","l",":"," ","s","e","e"," ","S","u","p","p","l","i","e","r"," ","D","e","t","a","i","l","s">>
LineSupplier == <<"S","u","p","p","l","i","e","r"," ","D","e","t","a","i","l","s",":"," ","A","c","m","e">>
LineSupplierLower == <<"s","u","p","p","l","i","e","r"," ","d","e","t","a","i","l","s"," ","B","o","l","t">>
LineLocation == <<"L","o","c","a","t","i","o","n",":"," ","X">>
LineLocationBullet == <<"-"," ","L","o","c","a","t","i","o","n"," ","Y">>
LineMainSupplier == <<" ","m","a","i","n"," ","s","u","p","p","l","i","e","r">>
LineDetailsHere == <<"d","e","t","a","i","l","s"," ","h","e","r","e">>
LineBlank == <<>>
LineError == <<"E","r","r","o","r"," ","5","0","0">>

LineMenu == {LinePhone, LineEmailSupplier, LineSupplier, LineSupplierLower, LineLocation,
             LineLocationBullet, LineMainSupplier, LineDetailsHere, LineBlank, LineError}

Replies == {Join(ls, NL) : ls \in UNION {[1..n -> LineMenu] : n \in 0..MaxLines}}
               \cup {TxtApiError}

InitFormat ==
    /\ t_in \in Replies
    /\ t_out = NotRun
    /\ t_out2 = NotRun
    /\ FetchIdle /\ RankIdle /\ CacheIdle

\* format_deep_scrape_output(t_in)
Format ==
    /\ t_out = NotRun
    /\ t_out' = [run |-> TRUE, call |-> format_deep_scrape_output(t_in)]
    /\ UNCHANGED <<t_in, t_out2, fetchVars, rankVars, cacheVars>>

\* format_deep_scrape_output applied to its own return value
Reformat ==
    /\ t_out # NotRun
    /\ t_out.call.exc = None
    /\ t_out2 = NotRun
    /\ t_out2' = [run |-> TRUE, call |-> format_deep_scrape_output(t_out.call.ret)]
    /\ UNCHANGED <<t_in, t_out, fetchVars, rankVars, cacheVars>>

NextFormat == Format \/ Reformat

SpecFormat == InitFormat /\ [][NextFormat]_vars

(***************************************************************************)
(* json.loads on the JSON the replies use: objects, arrays, strings        *)
(* without escapes, numbers without exponent, true, false, null.           *)
(* (The replies of the model have no backslash, exponent, NaN or Infinity, *)
(* which json.loads would also accept.)                                    *)
(* A value is [t, n, s, items]; a number n is kept in hundredths           *)
(* (fixed point), a dict is the sequence of its [k, v] items in insertion  *)
(* order.                                                                  *)
(***************************************************************************)
SCALE == 100

JNull == [t |-> "null", n |-> 0, s |-> <<>>, items |-> <<>>]
JBool(b) == [t |-> "bool", n |-> IF b THEN 1 ELSE 0, s |-> <<>>, items |-> <<>>]
JNum(type, n) == [t |-> type, n |-> n, s |-> <<>>, items |-> <<>>]
JStr(s) == [t |-> "str", n |-> 0, s |-> s, items |-> <<>>]
JList(items) == [t |-> "list", n |-> 0, s |-> <<>>, items |-> items]
JDict(items) == [t |-> "dict", n |-> 0, s |-> <<>>, items |-> items]

ParseFail == [ok |-> FALSE, v |-> JNull, i |-> 0]
Parsed(v, i) == [ok |-> TRUE, v |-> v, i |-> i]

\* d[k] = v on a dict: a new key goes last, an old key keeps its place
DictSet(items, k, v) ==
    IF \E j \in 1..Len(items) : items[j].k = k
    THEN [j \in 1..Len(items) |->
              IF items[j].k = k THEN [k |-> k, v |-> v] ELSE items[j]]
    ELSE Append(items, [k |-> k, v |-> v])
DictHas(items, k) == \E j \in 1..Len(items) : items[j].k = k
DictGet(items, k) == items[CHOOSE j \in 1..Len(items) : items[j].k = k].v

RECURSIVE SkipWs(_, _)
SkipWs(s, i) ==
    IF i <= Len(s) /\ s[i] \in Whitespace THEN SkipWs(s, i + 1) ELSE i

DigitChars == {"0", "1", "2", "3", "4", "5", "6", "7", "8", "9"}
DigitVal(c) == CHOOSE d \in 0..9 : Digits[d + 1] = c

\* the index after the run of digits that starts at i
RECURSIVE DigitsEnd(_, _)
DigitsEnd(s, i) ==
    IF i <= Len(s) /\ s[i] \in DigitChars THEN DigitsEnd(s, i + 1) ELSE i

\* the digits s[i..j-1] as a natural number
RECURSIVE DigitsVal(_, _, _)
DigitsVal(s, i, j) ==
    IF i >= j THEN 0 ELSE DigitsVal(s, i, j - 1) * 10 + DigitVal(s[j - 1])

RECURSIVE Pow10(_)
Pow10(k) == IF k = 0 THEN 1 ELSE 10 * Pow10(k - 1)

\* -?(0|[1-9][0-9]*)(\.[0-9]+)? : an int without fraction, else a float
ParseNumber(s, i) ==
    LET neg == i <= Len(s) /\ s[i] = "-"
        a == IF neg THEN i + 1 ELSE i
        b == IF a <= Len(s) /\ s[a] = "0" THEN a + 1 ELSE DigitsEnd(s, a)
        frac == b + 1 <= Len(s) /\ s[b] = "." /\ s[b + 1] \in DigitChars
        c == IF frac THEN DigitsEnd(s, b + 1) ELSE b
        whole == DigitsVal(s, a, b) * SCALE
        part == IF frac
                THEN (DigitsVal(s, b + 1, c) * SCALE) \div Pow10(c - (b + 1))
                ELSE 0
        mag == whole + part
    IN  IF b = a THEN ParseFail
        ELSE Parsed(JNum(IF frac THEN "float" ELSE "int",
                         IF neg THEN 0 - mag ELSE mag), c)

\* "..." : no escapes, no control characters inside
ParseString(s, i) ==
    IF ~(i <= Len(s) /\ s[i] = "\"") THEN ParseFail
    ELSE LET closing == {j \in (i + 1)..Len(s) : s[j] = "\""}
         IN  IF closing = {} THEN ParseFail
             ELSE LET j == CHOOSE k \in closing : \A m \in closing : k <= m
                      body == SubSeq(s, i + 1, j - 1)
                  IN  IF \E m \in 1..Len(body) : body[m] \in {"\n", "\t", "\r", "\\"}
                      THEN ParseFail
                      ELSE Parsed(JStr(body), j + 1)

StartsWith(s, i, w) ==
    /\ i + Len(w) - 1 <= Len(s)
    /\ \A j \in 1..Len(w) : s[i + j - 1] = w[j]

RECURSIVE ParseValue(_, _)
RECURSIVE ParseMembers(_, _, _)
RECURSIVE ParseElements(_, _, _)

\* after '{' or ',' : "key" : value, then ',' or '}'
ParseMembers(s, i, items) ==
    LET key == ParseString(s, SkipWs(s, i))
        colon == IF key.ok THEN SkipWs(s, key.i) ELSE 0
        val == IF key.ok /\ colon <= Len(s) /\ s[colon] = ":"
               THEN ParseValue(s, SkipWs(s, colon + 1)) ELSE ParseFail
        next == IF val.ok THEN SkipWs(s, val.i) ELSE 0
        sofar == IF val.ok THEN DictSet(items, key.v.s, val.v) ELSE items
    IN  IF ~val.ok \/ next > Len(s) THEN ParseFail
        ELSE IF s[next] = "}" THEN Parsed(JDict(sofar), next + 1)
        ELSE IF s[next] = "," THEN ParseMembers(s, next + 1, sofar)
        ELSE ParseFail

\* after '[' or ',' : value, then ',' or ']'
ParseElements(s, i, items) ==
    LET val == ParseValue(s, SkipWs(s, i))
        next == IF val.ok THEN SkipWs(s, val.i) ELSE 0
        sofar == IF val.ok THEN Append(items, val.v) ELSE items
    IN  IF ~val.ok \/ next > Len(s) THEN ParseFail
        ELSE IF s[next] = "]" THEN Parsed(JList(sofar), next + 1)
        ELSE IF s[next] = "," THEN ParseElements(s, next + 1, sofar)
        ELSE ParseFail

ParseValue(s, i) ==
    IF i > Len(s) THEN ParseFail
    ELSE IF s[i] = "{"
    THEN LET j == SkipWs(s, i + 1)
         IN  IF j <= Len(s) /\ s[j] = "}" THEN Parsed(JDict(<<>>), j + 1)
             ELSE ParseMembers(s, i + 1, <<>>)
    ELSE IF s[i] = "["
    THEN LET j == SkipWs(s, i + 1)
         IN  IF j <= Len(s) /\ s[j] = "]" THEN Parsed(JList(<<>>), j + 1)
             ELSE ParseElements(s, i + 1, <<>>)
    ELSE IF s[i] = "\"" THEN ParseString(s, i)
    ELSE IF StartsWith(s, i, <<"t","r","u","e">>) THEN Parsed(JBool(TRUE), i + 4)
    ELSE IF StartsWith(s, i, <<"f","a","l","s","e">>) THEN Parsed(JBool(FALSE), i + 5)
    ELSE IF StartsWith(s, i, <<"n","u","l","l">>) THEN Parsed(JNull, i + 4)
    ELSE ParseNumber(s, i)

\* json.loads(s): Some(value), or None for json.JSONDecodeError
json_loads(s) ==
    LET r == ParseValue(s, SkipWs(s, 1))
    IN  IF r.ok /\ SkipWs(s, r.i) > Len(s) THEN Some(r.v) ELSE None

\* re.search(r'\{.*\}', response, re.DOTALL): greedy, from the first '{' to
\* the last '}' behind it; None when there is no such span
json_match(response) ==
    LET opens == {i \in 1..Len(response) : response[i] = "{"}
        first == CHOOSE i \in opens : \A j \in opens : i <= j
        closes == {i \in 1..Len(response) : response[i] = "}" /\ i > first}
        final == CHOOSE i \in closes : \A j \in closes : i >= j
    IN  IF opens = {} \/ closes = {} THEN None
        ELSE Some(SubSeq(response, first, final))

(***************************************************************************)
(* chat_with_openai                                                        *)
(***************************************************************************)

\* what openai.ChatCompletion.create can do: return a message content, or raise
Reply(content) == [raised |-> FALSE, content |-> content]
Raises == [raised |-> TRUE, content |-> <<>>]

\* [ret |-> the returned text, msgs |-> what st.error reported]
chat_with_openai(outcome) ==
    IF outcome.raised
    THEN [ret |-> TxtApiError, msgs |-> <<"OpenAI API error">>]
    ELSE [ret |-> Strip(outcome.content), msgs |-> <<>>]

(***************************************************************************)
(* rank_suppliers                                                          *)
(***************************************************************************)
C_product_quality == <<"p","r","o","d","u","c","t","_","q","u","a","l","i","t","y">>
C_certifications == <<"c","e","r","t","i","f","i","c","a","t","i","o","n","s">>
C_customer_reviews == <<"c","u","s","t","o","m","e","r","_","r","e","v","i","e","w","s">>
C_price_competitiveness == <<"p","r","i","c","e","_","c","o","m","p","e","t","i","t","i","v","e","n","e","s","s">>
C_manufacturing_capabilities == <<"m","a","n","u","f","a","c","t","u","r","i","n","g","_","c","a","p","a","b","i","l","i","t","i","e","s">>
C_reliability == <<"r","e","l","i","a","b","i","l","i","t","y">>
C_innovation == <<"i","n","n","o","v","a","t","i","o","n">>
C_total == <<"t","o","t","a","l">>

\* criteria_weights in its insertion order; a weight is kept in hundredths
criteria_weights == <<
    [criterion |-> C_product_quality, weight |-> 25],
    [criterion |-> C_certifications, weight |-> 15],
    [criterion |-> C_customer_reviews, weight |-> 20],
    [criterion |-> C_price_competitiveness, weight |-> 15],
    [criterion |-> C_manufacturing_capabilities, weight |-> 10],
    [criterion |-> C_reliability, weight |-> 10],
    [criterion |-> C_innovation, weight |-> 5]
    >>

\* isinstance(v, (int, float)): bool is a subclass of int
IsIntOrFloat(v) == v.t \in {"int", "float", "bool"}

\* float(v) in hundredths
Float(v) == IF v.t = "bool" THEN v.n * SCALE ELSE v.n

\* min(5, max(0, x))
Clamp(x) == Min(5 * SCALE, Max(0, x))

\* cleaned_scores[criterion] of one supplier's scores dict
CleanedScore(scores, criterion) ==
    IF DictHas(scores, criterion) /\ IsIntOrFloat(DictGet(scores, criterion))
    THEN Clamp(Float(DictGet(scores, criterion)))
    ELSE 3 * SCALE

\* sum(cleaned_scores[criterion] * weight for ...), in 1/(SCALE*100)
RECURSIVE WeightedTotal(_, _)
WeightedTotal(scores, k) ==
    IF k = 0 THEN 0
    ELSE WeightedTotal(scores, k - 1)
         + CleanedScore(scores, criteria_weights[k].criterion) * criteria_weights[k].weight

\* truncates to one decimal instead of rounding
Round1_floor(x, up) == (x \div (SCALE * 10)) * 10

\* round(x, 1), x in 1/(SCALE*100), result in hundredths.  A binary float is
\* not exactly on a decimal tie: Python rounds x.x5 to either neighbour
\* depending on the representation error of the sum, which `up` stands for.
Round1(x, up) ==
    LET unit == SCALE * 10
        q == x \div unit
        r == x % unit
    IN  IF 2 * r < unit THEN q * 10
        ELSE IF 2 * r > unit THEN (q + 1) * 10
        ELSE IF up THEN (q + 1) * 10 ELSE q * 10

\* starts from a copy of the model's scores, so its extra keys stay in
CleanedScores_keep(scores, up) ==
    LET Criteria == {criteria_weights[k].criterion : k \in 1..Len(criteria_weights)}
        extra == SelectSeq(scores, LAMBDA item : item.k \notin Criteria \cup {C_total})
    IN  [k \in 1..Len(extra) |-> [k |-> extra[k].k, v |-> Float(extra[k].v)]]
        \o [k \in 1..(Len(criteria_weights) + 1) |->
              IF k <= Len(criteria_weights)
              THEN [k |-> criteria_weights[k].criterion,
                    v |-> CleanedScore(scores, criteria_weights[k].criterion)]
              ELSE [k |-> C_total,
                    v |-> Round1(WeightedTotal(scores, Len(criteria_weights)), up)]]

\* the cleaned_scores dict of one supplier: the 7 criteria, then "total"
CleanedScores(scores, up) ==
    [k \in 1..(Len(criteria_weights) + 1) |->
        IF k <= Len(criteria_weights)
        THEN [k |-> criteria_weights[k].criterion,
              v |-> CleanedScore(scores, criteria_weights[k].criterion)]
        ELSE [k |-> C_total,
              v |-> Round1(WeightedTotal(scores, Len(criteria_weights)), up)]]

\* without the isinstance(scores, dict) test: an entry that is not a mapping
\* gets the default scores
RECURSIVE CleanedData_all(_, _, _)
CleanedData_all(ranking_data, k, ups) ==
    IF k = 0 THEN <<>>
    ELSE DictSet(CleanedData_all(ranking_data, k - 1, ups), ranking_data[k].k,
                 CleanedScores(ranking_data[k].v.items, ups[k]))

\* for supplier, scores in ranking_data.items(): the dict cleaned_data after
\* the first k items; ups[j] is the rounding direction for the j-th item
RECURSIVE CleanedData(_, _, _)
CleanedData(ranking_data, k, ups) ==
    IF k = 0 THEN <<>>
    ELSE LET before == CleanedData(ranking_data, k - 1, ups)
             item == ranking_data[k]
         IN  IF item.v.t = "dict"
             THEN DictSet(before, item.k, CleanedScores(item.v.items, ups[k]))
             ELSE before

\* response = chat_with_openai(query), json_match = re.search(...) and
\* ranking_data = json.loads(json_match.group(0)):
\* m is None without a brace span, ranking_data is None for JSONDecodeError
ranking_response(outcome) ==
    LET chat == chat_with_openai(outcome)
        m == json_match(chat.ret)
    IN  [msgs |-> chat.msgs, m |-> m,
         ranking_data |-> IF m = None THEN None ELSE json_loads(m[1])]

\* returns an empty ranking where the source returns None
ranking_result_lenient(response, ups) ==
    IF response.m = None \/ response.ranking_data = None
    THEN [ret |-> Some(<<>>), msgs |-> response.msgs]
    ELSE [ret |-> Some(CleanedData(response.ranking_data[1].items,
                                   Len(response.ranking_data[1].items), ups)),
          msgs |-> response.msgs]

\* the rest of rank_suppliers, from "if json_match:" on
ranking_result(response, ups) ==
    IF response.m = None
    THEN [ret |-> None, msgs |-> Append(response.msgs, "No valid JSON found")]
    ELSE IF response.ranking_data = None
    THEN [ret |-> None, msgs |-> Append(response.msgs, "Unable to parse JSON")]
    ELSE [ret |-> Some(CleanedData(response.ranking_data[1].items,
                                   Len(response.ranking_data[1].items), ups)),
          msgs |-> response.msgs]

\* rank_suppliers: [ret |-> Some(cleaned_data) or None, msgs |-> st.error reports]
rank_suppliers(outcome, ups) == ranking_result(ranking_response(outcome), ups)

(***************************************************************************)
(* chat_with_openai and rank_suppliers of src/ui10.py                      *)
(***************************************************************************)
TxtUi10ApiError == <<"E","r","r","o","r"," ","p","r","o","c","e","s","s","i","n","g"," ","w","i","t","h"," ","O","p","e","n","A","I"," ","A","P","I",":"," ">>

\* f"Error processing with OpenAI API: {str(e)}"; outcome.content is str(e)
ui10_chat_with_openai(outcome) ==
    IF outcome.raised
    THEN [ret |-> TxtUi10ApiError \o outcome.content, msgs |-> <<"OpenAI API error">>]
    ELSE [ret |-> Strip(outcome.content), msgs |-> <<>>]

\* {k: v for k, v in scores.items() if isinstance(v, (int, float))}, then
\* {k: min(5, v / 2) if v > 5 else v for ...}; values in hundredths
RECURSIVE ui10_cleaned_scores(_, _)
ui10_cleaned_scores(scores, k) ==
    IF k = 0 THEN <<>>
    ELSE LET before == ui10_cleaned_scores(scores, k - 1)
             v == Float(scores[k].v)
         IN  IF IsIntOrFloat(scores[k].v)
             THEN Append(before,
                         [k |-> scores[k].k,
                          v |-> IF v > 5 * SCALE THEN Min(5 * SCALE, v \div 2) ELSE v])
             ELSE before

\* sum(cleaned_scores.values())
RECURSIVE ui10_sum(_, _)
ui10_sum(cleaned_scores, k) ==
    IF k = 0 THEN 0 ELSE ui10_sum(cleaned_scores, k - 1) + cleaned_scores[k].v

\* the loop over ranking_data.items() after its first k items: cleaned_data,
\* and the exception that stopped it.  The quotient sum / len is kept as the
\* pair [num, den]; len = 0 is Python's ZeroDivisionError.
RECURSIVE ui10_cleaned_data(_, _)
ui10_cleaned_data(ranking_data, k) ==
    IF k = 0 THEN [exc |-> None, data |-> <<>>]
    ELSE LET before == ui10_cleaned_data(ranking_data, k - 1)
             item == ranking_data[k]
             cleaned_scores == ui10_cleaned_scores(item.v.items, Len(item.v.items))
             total == [num |-> ui10_sum(cleaned_scores, Len(cleaned_scores)),
                       den |-> Len(cleaned_scores)]
         IN  IF before.exc # None \/ item.v.t # "dict" THEN before
             ELSE IF cleaned_scores = <<>>
             THEN [before EXCEPT !.exc = Some("ZeroDivisionError")]
             ELSE [before EXCEPT !.data =
                      DictSet(@, item.k, DictSet(cleaned_scores, C_total, total))]

\* rank_suppliers of ui10.py: [exc |-> the exception that escaped or None,
\* ret |-> Some(cleaned_data) or None, msgs |-> st.error reports]
ui10_rank_suppliers(outcome) ==
    LET chat == ui10_chat_with_openai(outcome)
        m == json_match(chat.ret)
        ranking_data == IF m = None THEN None ELSE json_loads(m[1])
        cleaned == ui10_cleaned_data(ranking_data[1].items, Len(ranking_data[1].items))
    IN  IF m = None
        THEN [exc |-> None, ret |-> None,
              msgs |-> Append(chat.msgs, "No valid JSON found")]
        ELSE IF ranking_data = None
        THEN [exc |-> None, ret |-> None,
              msgs |-> Append(chat.msgs, "Unable to parse JSON")]
        ELSE IF cleaned.exc # None
        THEN [exc |-> cleaned.exc, ret |-> None, msgs |-> chat.msgs]
        ELSE [exc |-> None, ret |-> Some(cleaned.data), msgs |-> chat.msgs]

\* "if ranking is not None:": an empty ranking is stored too
rank_button_notnone(ranking) ==
    IF ranking # None THEN "stored" ELSE "Failed to rank"

\* the rank button handler on the value rank_suppliers returned:
\* "if ranking:" stores it, else st.error(f"Failed to rank {row['name']}.")
rank_button(ranking) ==
    IF ranking # None /\ ranking[1] # <<>> THEN "stored" ELSE "Failed to rank"

(***************************************************************************)
(* The ranking normalizer on its own: the outcome of its LLM call is       *)
(* drawn, then the call runs.                                              *)
(***************************************************************************)
MaxScores == 2
MaxSuppliers == 2

Quote(s) == <<"\"">> \o s \o <<"\"">>
Braces(s) == <<"{">> \o s \o <<"}">>
Sep == <<",", " ">>
Colon == <<":", " ">>

\* the sequences of at most n elements of S
SeqUpTo(S, n) == UNION {[1..k -> S] : k \in 0..n}

C_notes == <<"n","o","t","e","s">>
ScoreKeys == {criteria_weights[k].criterion : k \in 1..Len(criteria_weights)} \cup {C_notes}
ScoreValues == {<<"-","1">>, <<"4">>, <<"4",".","5">>, <<"7">>, <<"t","r","u","e">>, <<"\"","h","i","g","h","\"">>}
ScoreEntries == {Quote(k) \o Colon \o v : k \in ScoreKeys, v \in ScoreValues}

\* {"A": {<at most MaxScores entries>}}
RichReplies ==
    {Braces(Quote(<<"A">>) \o Colon \o Braces(Join(es, Sep))) :
        es \in SeqUpTo(ScoreEntries, MaxScores)}

SupplierNames == {<<"A">>, <<"B">>}
SupplierValues == {<<"{","}">>, <<"{","\"","p","r","o","d","u","c","t","_","q","u","a","l","i","t","y","\"",":"," ","5","}">>, <<"3">>, <<"\"","n","/","a","\"">>, <<"[","4",","," ","5","]">>}
SupplierEntries == {Quote(n) \o Colon \o v : n \in SupplierNames, v \in SupplierValues}

\* {<at most MaxSuppliers entries, of any value type>}
MixedReplies == {Braces(Join(es, Sep)) : es \in SeqUpTo(SupplierEntries, MaxSuppliers)}

ReplyExample == <<"{","\"","S","u","p","p","l","i","e","r","A","\"",":"," ","{","\"","p","r","o","d","u","c","t","_","q","u","a","l","i","t","y","\"",":"," ","5","}","}">>
ReplyEmpty == <<>>
ReplyProse == <<"I"," ","c","a","n","n","o","t"," ","r","a","n","k"," ","t","h","e","s","e"," ","s","u","p","p","l","i","e","r","s",".">>
ReplyOpenOnly == <<"S","c","o","r","e","s",":"," ","{","\"","A","\"",":"," ","4">>
ReplyCloseFirst == <<"}"," ","t","h","e","n"," ","{">>
ReplyUnclosed == <<"{","\"","A","\"",":"," ","{","\"","i","n","n","o","v","a","t","i","o","n","\"",":"," ","4","}">>
ReplySingleQuotes == <<"{","'","A","'",":"," ","{","'","i","n","n","o","v","a","t","i","o","n","'",":"," ","4","}","}">>
ReplyTrailingComma == <<"{","\"","A","\"",":"," ","{","\"","i","n","n","o","v","a","t","i","o","n","\"",":"," ","4","}",",","}">>
ReplyWrapped == <<"H","e","r","e"," ","y","o","u"," ","g","o",":","\n","{","\n"," "," ","\"","A","\"",":"," ","{","\"","i","n","n","o","v","a","t","i","o","n","\"",":"," ","4","}","\n","}","\n","T","h","a","n","k","s","!">>
ReplyTwoObjects == <<"{","\"","A","\"",":"," ","{","\"","i","n","n","o","v","a","t","i","o","n","\"",":"," ","4","}","}"," ","a","n","d"," ","{","\"","B","\"",":"," ","{","\"","i","n","n","o","v","a","t","i","o","n","\"",":"," ","5","}","}">>
ReplyTrailingBrace == <<"{","\"","A","\"",":"," ","{","\"","i","n","n","o","v","a","t","i","o","n","\"",":"," ","4","}","}"," ",":","-","}">>
ReplySameName == <<"{","\"","A","\"",":"," ","{","\"","i","n","n","o","v","a","t","i","o","n","\"",":"," ","4","}",","," ","\"","A","\"",":"," ","{","\"","r","e","l","i","a","b","i","l","i","t","y","\"",":"," ","0",".","5","}","}">>

FixedReplies == {ReplyExample, ReplyEmpty, ReplyProse, ReplyOpenOnly,
                 ReplyCloseFirst, ReplyUnclosed, ReplySingleQuotes, ReplyTrailingComma,
                 ReplyWrapped, ReplyTwoObjects, ReplyTrailingBrace, ReplySameName}

RankOutcomes ==
    {Reply(c) : c \in RichReplies \cup MixedReplies \cup FixedReplies} \cup {Raises}

InitRank ==
    /\ r_in \in RankOutcomes
    /\ r_out = NotRun
    /\ r_out10 = NotRun
    /\ ranking_results = <<>>
    /\ s_last = NotRun
    /\ FetchIdle /\ FormatIdle /\ CacheIdle

\* rank_suppliers(text): the reply is read once, ups is the direction in
\* which each supplier's total is rounded at a tie
Rank ==
    /\ r_out = NotRun
    /\ r_out10 = NotRun
    /\ \E response \in {ranking_response(r_in)} :
          r_out' \in {[run |-> TRUE, call |-> ranking_result(response, ups)] :
                          ups \in [1..MaxSuppliers -> BOOLEAN]}
    /\ UNCHANGED <<r_in, r_out10, ranking_results, s_last, fetchVars, formatVars, cacheVars>>

\* rank_suppliers(text) of ui10.py, the other version of the application:
\* a session runs one of the two
RankUi10 ==
    /\ r_out10 = NotRun
    /\ r_out = NotRun
    /\ r_out10' = [run |-> TRUE, call |-> ui10_rank_suppliers(r_in)]
    /\ UNCHANGED <<r_in, r_out, ranking_results, s_last, fetchVars, formatVars, cacheVars>>

NextRank == Rank \/ RankUi10

SpecRank == InitRank /\ [][NextRank]_vars

(***************************************************************************)
(* deep_scrape_website and its lru_cache                                   *)
(***************************************************************************)
TxtNoData == <<"N","o"," ","d","a","t","a"," ","e","x","t","r","a","c","t","e","d","."," ","T","h","e"," ","w","e","b","s","i","t","e"," ","m","i","g","h","t"," ","b","e"," ","b","l","o","c","k","i","n","g"," ","r","e","q","u","e","s","t","s",".">>

\* data_values[:5000]
TRUNCATE == 5000
Truncate(text) == SubSeq(text, 1, Min(Len(text), TRUNCATE))

\* if data_values: neither None nor the empty string
Truthy(opt) == opt # None /\ opt[1] # <<>>

\* without the "if data_values:" guard: slicing None raises TypeError
deep_scrape_body_noguard(resp, extraction, summary) ==
    LET fetched == extract_webpage_text(resp, DEFAULT_RETRIES)
        data_values == fetched.ret
        truncated_text == Truncate(data_values[1])
        result == chat_with_openai(extraction)
        formatted_result == format_deep_scrape_output(result.ret)
        summarized == chat_with_openai(summary)
        first_call == [prompt |-> "extract", context |-> truncated_text,
                       raised |-> extraction.raised]
        second_call == [prompt |-> "summary", context |-> truncated_text,
                        raised |-> summary.raised]
        done == [exc |-> None, ret |-> <<TxtNoData, None>>, llm |-> <<>>,
                 gets |-> fetched.gets, absent |-> data_values = None,
                 fetched |-> data_values]
    IN  IF data_values = None
        THEN [done EXCEPT !.exc = Some("TypeError"), !.ret = <<>>]
        ELSE IF formatted_result.exc # None
        THEN [done EXCEPT !.exc = formatted_result.exc, !.ret = <<>>,
                          !.llm = <<first_call>>]
        ELSE [done EXCEPT !.ret = <<formatted_result.ret, Some(summarized.ret)>>,
                          !.llm = <<first_call, second_call>>]

\* makes no summary call after a failed extraction call
deep_scrape_body_stoponerror(resp, extraction, summary) ==
    LET fetched == extract_webpage_text(resp, DEFAULT_RETRIES)
        data_values == fetched.ret
        truncated_text == Truncate(data_values[1])
        result == chat_with_openai(extraction)
        formatted_result == format_deep_scrape_output(result.ret)
        summarized == chat_with_openai(summary)
        first_call == [prompt |-> "extract", context |-> truncated_text,
                       raised |-> extraction.raised]
        second_call == [prompt |-> "summary", context |-> truncated_text,
                        raised |-> summary.raised]
        done == [exc |-> None, ret |-> <<TxtNoData, None>>, llm |-> <<>>,
                 gets |-> fetched.gets, absent |-> data_values = None,
                 fetched |-> data_values]
    IN  IF Truthy(data_values)
        THEN IF formatted_result.exc # None
             THEN [done EXCEPT !.exc = formatted_result.exc, !.ret = <<>>,
                               !.llm = <<first_call>>]
             ELSE IF extraction.raised
             THEN [done EXCEPT !.ret = <<formatted_result.ret, None>>,
                               !.llm = <<first_call>>]
             ELSE [done EXCEPT !.ret = <<formatted_result.ret, Some(summarized.ret)>>,
                               !.llm = <<first_call, second_call>>]
        ELSE done

\* the function body, run on a cache miss.  resp: what the GET requests meet;
\* extraction, summary: the outcomes of the two LLM calls.
\* exc: an exception that escaped; ret: the returned tuple (formatted_result,
\* summary); gets: GET requests issued; absent: the fetch returned None;
\* llm: the chat_with_openai calls made, in order; fetched: data_values.
deep_scrape_body(resp, extraction, summary) ==
    LET fetched == extract_webpage_text(resp, DEFAULT_RETRIES)
        data_values == fetched.ret
        truncated_text == Truncate(data_values[1])
        result == chat_with_openai(extraction)
        formatted_result == format_deep_scrape_output(result.ret)
        summarized == chat_with_openai(summary)
        first_call == [prompt |-> "extract", context |-> truncated_text,
                       raised |-> extraction.raised]
        second_call == [prompt |-> "summary", context |-> truncated_text,
                        raised |-> summary.raised]
        done == [exc |-> None, ret |-> <<TxtNoData, None>>, llm |-> <<>>,
                 gets |-> fetched.gets, absent |-> data_values = None,
                 fetched |-> data_values]
    IN  IF Truthy(data_values)
        THEN IF formatted_result.exc # None
             THEN [done EXCEPT !.exc = formatted_result.exc, !.ret = <<>>,
                               !.llm = <<first_call>>]
             ELSE [done EXCEPT !.ret = <<formatted_result.ret, Some(summarized.ret)>>,
                               !.llm = <<first_call, second_call>>]
        ELSE done

\* @lru_cache(maxsize=128); the model keeps the policy and scales the
\* capacity down so that eviction happens among the urls of the model
maxsize == 2

Urls == {"u1", "u2", "u3"}

CacheKeys == {cache[i].key : i \in 1..Len(cache)}
CacheIndex(url) == CHOOSE i \in 1..Len(cache) : cache[i].key = url
Without(i) == SubSeq(cache, 1, i - 1) \o SubSeq(cache, i + 1, Len(cache))

\* drops the most recent entry instead of the least recent one
Inserted_mru(entry) ==
    Append(IF Len(cache) >= maxsize THEN SubSeq(cache, 1, Len(cache) - 1) ELSE cache,
           entry)

\* the new entry goes last; a full cache first drops its least recent entry
Inserted(entry) ==
    Append(IF Len(cache) >= maxsize THEN Tail(cache) ELSE cache, entry)

ExtractionReply == Join(<<LinePhone, LineSupplier, LineMainSupplier, LineSupplierLower>>, NL)
SummaryReply == <<"A","c","m","e"," ","m","a","k","e","s"," ","v","a","l","v","e","s",".">>

PageResponses == {Http(200, PageText), Http(200, <<>>), Http(403, <<>>),
                  Http(500, <<>>), NetworkError}
ExtractionOutcomes == {Reply(ExtractionReply), Raises}
SummaryOutcomes == {Reply(SummaryReply), Raises}

\* every way the function body can go on a miss
Bodies ==
    {deep_scrape_body(resp, extraction, summary) :
        resp \in [1..DEFAULT_RETRIES -> PageResponses],
        extraction \in ExtractionOutcomes, summary \in SummaryOutcomes}

Init ==
    /\ cache = <<>>
    /\ last = NotRun
    /\ prev = [u \in Urls |-> NotRun]
    /\ since = [u \in Urls |-> {}]
    /\ inflight = <<>>
    /\ FetchIdle /\ FormatIdle /\ RankIdle

Called(url) == [u \in Urls |-> IF u = url THEN {} ELSE since[u] \cup {url}]

\* a hit that returns the cached value but leaves the recency order alone
DeepScrapeHit_norefresh(url) ==
    /\ url \in CacheKeys
    /\ LET entry == cache[CacheIndex(url)]
       IN  /\ cache' = cache
           /\ last' = [run |-> TRUE, url |-> url, hit |-> TRUE, exc |-> None,
                       ret |-> entry.value, gets |-> 0, llm |-> <<>>,
                       absent |-> FALSE, fetched |-> None,
                       before |-> prev[url], others |-> since[url]]
           /\ prev' = [prev EXCEPT ![url] =
                          [run |-> TRUE, ret |-> entry.value, from200 |-> entry.from200]]
    /\ since' = Called(url)
    /\ UNCHANGED <<inflight, fetchVars, formatVars, rankVars>>

\* deep_scrape_website(url) with url in the cache: the wrapper returns the
\* cached value and makes the entry the most recent one
DeepScrapeHit(url) ==
    /\ url \in CacheKeys
    /\ LET i == CacheIndex(url)
           entry == cache[i]
       IN  /\ cache' = Append(Without(i), entry)
           /\ last' = [run |-> TRUE, url |-> url, hit |-> TRUE, exc |-> None,
                       ret |-> entry.value, gets |-> 0, llm |-> <<>>,
                       absent |-> FALSE, fetched |-> None,
                       before |-> prev[url], others |-> since[url]]
           /\ prev' = [prev EXCEPT ![url] =
                          [run |-> TRUE, ret |-> entry.value, from200 |-> entry.from200]]
    /\ since' = Called(url)
    /\ UNCHANGED <<inflight, fetchVars, formatVars, rankVars>>

\* deep_scrape_website(url) with url not in the cache: the body runs and its
\* return value is cached; nothing is cached when it raises
DeepScrapeMiss(url) ==
    /\ url \notin CacheKeys
    /\ \E body \in Bodies :
          LET from200 == ~body.absent
          IN  /\ last' = [run |-> TRUE, url |-> url, hit |-> FALSE, exc |-> body.exc,
                          ret |-> body.ret, gets |-> body.gets,
                          llm |-> body.llm, absent |-> body.absent,
                          fetched |-> body.fetched,
                          before |-> prev[url], others |-> since[url]]
              /\ IF body.exc = None
                 THEN /\ cache' = Inserted([key |-> url, value |-> body.ret,
                                            from200 |-> from200])
                      /\ prev' = [prev EXCEPT ![url] =
                                     [run |-> TRUE, ret |-> body.ret, from200 |-> from200]]
                 ELSE UNCHANGED <<cache, prev>>
    /\ since' = Called(url)
    /\ UNCHANGED <<inflight, fetchVars, formatVars, rankVars>>

deep_scrape_website(url) == DeepScrapeHit(url) \/ DeepScrapeMiss(url)

Next == \E url \in Urls : deep_scrape_website(url)

Spec == Init /\ [][Next]_vars

(***************************************************************************)
(* deep_scrape_website under concurrent callers.  The lru_cache wrapper    *)
(* looks the key up, releases its lock, calls the function and only then   *)
(* stores the result: a call is a lookup step and, on a miss, a later      *)
(* store step, and the steps of different callers interleave.              *)
(***************************************************************************)
Callers == {"c1", "c2"}

NoCall == [pc |-> "idle", url |-> "", hit |-> FALSE, raced |-> FALSE,
           gets |-> 0, llm |-> <<>>, absent |-> FALSE, ret |-> <<>>]

\* the page answers 200 with text or 500 on every attempt
RacePages == {[i \in 1..DEFAULT_RETRIES |-> Http(200, PageText)],
              [i \in 1..DEFAULT_RETRIES |-> Http(500, <<>>)]}

RaceBodies ==
    {deep_scrape_body(resp, extraction, Reply(SummaryReply)) :
        resp \in RacePages, extraction \in ExtractionOutcomes}

InitRace ==
    /\ cache = <<>>
    /\ last = NotRun /\ prev = <<>> /\ since = <<>>
    /\ inflight = [c \in Callers |-> NoCall]
    /\ FetchIdle /\ FormatIdle /\ RankIdle

\* the callers whose function body is running for url
Running(url) == {c \in Callers : inflight[c].pc = "running" /\ inflight[c].url = url}

\* the lookup finds the key: the cached value is returned at once
RaceHit(c, url) ==
    /\ inflight[c].pc = "idle"
    /\ url \in CacheKeys
    /\ LET i == CacheIndex(url)
       IN  /\ cache' = Append(Without(i), cache[i])
           /\ inflight' = [inflight EXCEPT ![c] =
                  [NoCall EXCEPT !.pc = "done", !.url = url, !.hit = TRUE,
                                 !.ret = cache[i].value]]
    /\ UNCHANGED <<last, prev, since, fetchVars, formatVars, rankVars>>

\* a caller that finds the body of another caller running for its url does
\* not run the body itself
RaceMiss_singleflight(c, url) ==
    /\ inflight[c].pc = "idle"
    /\ url \notin CacheKeys
    /\ inflight' = [d \in Callers |->
          IF d = c
          THEN IF Running(url) # {}
               THEN [NoCall EXCEPT !.pc = "done", !.url = url, !.raced = TRUE]
               ELSE [NoCall EXCEPT !.pc = "running", !.url = url]
          ELSE IF d \in Running(url) THEN [inflight[d] EXCEPT !.raced = TRUE]
          ELSE inflight[d]]
    /\ UNCHANGED <<cache, last, prev, since, fetchVars, formatVars, rankVars>>

\* the lookup misses: the body starts, whether or not another caller is
\* already running it for the same url (raced records that one is)
RaceMiss(c, url) ==
    /\ inflight[c].pc = "idle"
    /\ url \notin CacheKeys
    /\ inflight' = [d \in Callers |->
          IF d = c
          THEN [NoCall EXCEPT !.pc = "running", !.url = url,
                              !.raced = Running(url) # {}]
          ELSE IF d \in Running(url) THEN [inflight[d] EXCEPT !.raced = TRUE]
          ELSE inflight[d]]
    /\ UNCHANGED <<cache, last, prev, since, fetchVars, formatVars, rankVars>>

\* the body has run: its value is stored unless the key was added to the
\* cache in the meantime, and returned
RaceStore(c) ==
    /\ inflight[c].pc = "running"
    /\ \E body \in RaceBodies :
          /\ inflight' = [inflight EXCEPT ![c] =
                 [@ EXCEPT !.pc = "done", !.gets = body.gets, !.llm = body.llm,
                           !.absent = body.absent, !.ret = body.ret]]
          /\ IF body.exc = None /\ inflight[c].url \notin CacheKeys
             THEN cache' = Inserted([key |-> inflight[c].url, value |-> body.ret,
                                     from200 |-> ~body.absent])
             ELSE UNCHANGED cache
    /\ UNCHANGED <<last, prev, since, fetchVars, formatVars, rankVars>>

\* the caller has its value and can call again
RaceReturn(c) ==
    /\ inflight[c].pc = "done"
    /\ inflight' = [inflight EXCEPT ![c] = NoCall]
    /\ UNCHANGED <<cache, last, prev, since, fetchVars, formatVars, rankVars>>

NextRace ==
    \E c \in Callers :
        \/ \E url \in Urls : RaceHit(c, url) \/ RaceMiss(c, url)
        \/ RaceStore(c)
        \/ RaceReturn(c)

SpecRace == InitRace /\ [][NextRace]_vars

(***************************************************************************)
(* The session: the rank button and the ranking display of a result row.   *)
(* A click draws what the GET requests meet and what the LLM replies.      *)
(***************************************************************************)
Websites == {"w1", "w2"}

\* supplier_name = list(ranking.keys())[0]; total_score = ranking[supplier_name]["total"]
read_total(ranking) ==
    IF ranking = <<>> THEN [exc |-> Some("IndexError"), total |-> 0]
    ELSE IF ~DictHas(ranking[1].v, C_total) THEN [exc |-> Some("KeyError"), total |-> 0]
    ELSE [exc |-> None, total |-> DictGet(ranking[1].v, C_total)]

\* the rank button handler without its writes to the session: text is
\* raw_text, ranking what rank_suppliers returned (None when it was not
\* called), msg what the handler did
rank_click(resp, outcome, ups) ==
    LET raw_text == extract_webpage_text(resp, DEFAULT_RETRIES).ret
        ranking == rank_suppliers(outcome, ups).ret
    IN  IF ~Truthy(raw_text)
        THEN [text |-> raw_text, called |-> FALSE, ranking |-> None,
              msg |-> "No data extracted"]
        ELSE [text |-> raw_text, called |-> TRUE, ranking |-> ranking,
              msg |-> rank_button(ranking)]

ReplyTwoSuppliers == <<"{","\"","A","\"",":"," ","{","\"","i","n","n","o","v","a","t","i","o","n","\"",":"," ","4","}",","," ","\"","B","\"",":"," ","{","}","}">>

SessionPages == {[i \in 1..DEFAULT_RETRIES |-> Http(200, PageText)],
                 [i \in 1..DEFAULT_RETRIES |-> Http(200, <<>>)],
                 [i \in 1..DEFAULT_RETRIES |-> Http(403, <<>>)],
                 [i \in 1..DEFAULT_RETRIES |-> IF i = 1 THEN NetworkError ELSE Http(200, PageText)]}
SessionOutcomes ==
    {Reply(c) : c \in FixedReplies \cup {ReplyTwoSuppliers}
                      \cup {Braces(Join(es, Sep)) : es \in SeqUpTo(SupplierEntries, 1)}}
        \cup {Raises}

\* every way a click on the rank button can go
RankClicks ==
    {rank_click(resp, outcome, ups) :
        resp \in SessionPages, outcome \in SessionOutcomes,
        ups \in [1..MaxSuppliers -> BOOLEAN]}

InitSession ==
    /\ ranking_results = [w \in Websites |-> None]
    /\ s_last = NotRun
    /\ r_in = NotRun /\ r_out = NotRun /\ r_out10 = NotRun
    /\ FetchIdle /\ FormatIdle /\ CacheIdle

\* the rank button of the row of website: the ranking is stored and its
\* first total read for the suppliers list
RankButton(website) ==
    /\ \E click \in RankClicks :
          /\ ranking_results' =
                IF click.msg = "stored"
                THEN [ranking_results EXCEPT ![website] = click.ranking]
                ELSE ranking_results
          /\ s_last' = [run |-> TRUE, op |-> "rank", website |-> website,
                        text |-> click.text, called |-> click.called,
                        ranking |-> click.ranking, msg |-> click.msg,
                        exc |-> IF click.msg = "stored"
                                THEN read_total(click.ranking[1]).exc ELSE None,
                        total |-> 0]
    /\ UNCHANGED <<r_in, r_out, r_out10, fetchVars, formatVars, cacheVars>>

\* the ranking column and the expander of the row of website
RankingDisplay(website) ==
    /\ ranking_results[website] # None
    /\ LET read == read_total(ranking_results[website][1])
       IN  s_last' = [run |-> TRUE, op |-> "display", website |-> website,
                      text |-> None, called |-> FALSE,
                      ranking |-> ranking_results[website], msg |-> "",
                      exc |-> read.exc, total |-> read.total]
    /\ UNCHANGED <<ranking_results, r_in, r_out, r_out10, fetchVars, formatVars, cacheVars>>

\* a new search resets the session
NewSearch ==
    /\ ranking_results' = [w \in Websites |-> None]
    /\ s_last' = NotRun
    /\ UNCHANGED <<r_in, r_out, r_out10, fetchVars, formatVars, cacheVars>>

NextSession ==
    \/ \E website \in Websites : RankButton(website)
    \/ \E website \in Websites : RankingDisplay(website)
    \/ NewSearch

SpecSession == InitSession /\ [][NextSession]_vars

(***************************************************************************)
(* Properties of extract_webpage_text (SpecFetch)                          *)
(***************************************************************************)
IsBlock(response) == response.kind = "http" /\ response.status \in {403, 429}

AllBlocked == \A i \in 1..f_retries : IsBlock(f_resp[i])

\* C2: for max_retries = n >= 1, when each of the first n responses is a
\* block signal (403 or 429), the call issues exactly n GET requests and
\* returns None.
C2_BlockedExhaustsRetries ==
    (f_out.run /\ f_retries >= 1 /\ AllBlocked)
        => (f_out.call.gets = f_retries /\ f_out.call.ret = None)

\* three 429 responses with retries = 3: the call has run
C2_Witness ==
    /\ f_out.run
    /\ f_retries = 3
    /\ \A i \in 1..3 : f_resp[i] = Http(429, <<>>)
    /\ f_out.call.gets = 3

(***************************************************************************)
(* Properties of deep_scrape_website and its cache (Spec)                  *)
(***************************************************************************)
\* C1: when the previous call for a url got its value from a fetch that
\* returned HTTP 200 and fewer than maxsize other distinct urls were
\* extracted since, the next call for that url returns the identical tuple
\* and makes no GET request and no LLM call.
C1_SecondCallIsCacheHit ==
    (/\ last.run
     /\ last.before.run
     /\ last.before.from200
     /\ Cardinality(last.others) < maxsize)
        => (/\ last.exc = None
            /\ last.ret = last.before.ret
            /\ last.gets = 0
            /\ last.llm = <<>>)

\* a second call for a url whose first call fetched a page and ran both LLM
\* calls, with another url extracted in between
C1_Witness ==
    /\ last.run
    /\ last.before.run
    /\ last.before.from200
    /\ last.before.ret[2] # None
    /\ Cardinality(last.others) = maxsize - 1
    /\ last.ret = last.before.ret
    /\ last.gets = 0

\* C9: after a call whose fetch returned None (blocked, hard HTTP failure
\* or retries exhausted) the cache holds no record for that url.
C9_NoRecordAfterFailedFetch ==
    (last.run /\ ~last.hit /\ last.absent) => last.url \notin CacheKeys

\* the formatted result is one of the error strings, not section lines
IsErrorSentinel(text) == text = TxtApiError \/ text = TxtNoData

\* C10: when the LLM raises during the extraction call, no exception
\* escapes and the formatted result is an error sentinel, not the canonical
\* sections filled with default lines.
C10_LlmErrorGivesSentinel ==
    (last.run /\ ~last.hit /\ last.llm # <<>> /\ last.llm[1].raised)
        => (/\ last.exc = None
            /\ IsErrorSentinel(last.ret[1])
            /\ ~Contains(last.ret[1], TxtNotFound))

(***************************************************************************)
(* Properties of rank_suppliers (SpecRank)                                 *)
(***************************************************************************)
\* the score maps of the returned ranking
ScoreMaps ==
    IF r_out.run /\ r_out.call.ret # None
    THEN {r_out.call.ret[1][i].v : i \in 1..Len(r_out.call.ret[1])}
    ELSE {}

\* sum of clamp(score, 0, 5) * weight over the 7 fixed criteria of a stored
\* score map, with the weights 0.25 0.15 0.20 0.15 0.10 0.10 0.05 written out
ClampedSum(m) ==
      25 * Min(500, Max(0, DictGet(m, C_product_quality)))
    + 15 * Min(500, Max(0, DictGet(m, C_certifications)))
    + 20 * Min(500, Max(0, DictGet(m, C_customer_reviews)))
    + 15 * Min(500, Max(0, DictGet(m, C_price_competitiveness)))
    + 10 * Min(500, Max(0, DictGet(m, C_manufacturing_capabilities)))
    + 10 * Min(500, Max(0, DictGet(m, C_reliability)))
    +  5 * Min(500, Max(0, DictGet(m, C_innovation)))

Abs(x) == IF x < 0 THEN 0 - x ELSE x

\* C3: in every score map rank_suppliers produces, total is the weighted sum
\* of the clamped scores rounded to one decimal (a multiple of 0.1 at most
\* 0.05 away from the sum), and total lies in [0, 5].
C3_TotalIsRoundedWeightedSum ==
    \A m \in ScoreMaps :
        LET total == DictGet(m, C_total)
        IN  /\ total % 10 = 0
            /\ Abs(total * 100 - ClampedSum(m)) <= 500
            /\ 0 <= total /\ total <= 500

\* a score above 5 was clamped and the total is not the neutral 3.0
C3_Witness ==
    /\ r_out.run
    /\ r_in = Reply(Braces(Quote(<<"A">>) \o Colon \o Braces(
                 Quote(C_product_quality) \o Colon \o <<"7">> \o Sep \o
                 Quote(C_innovation) \o Colon \o <<"4", ".", "5">>)))
    /\ \E m \in ScoreMaps : DictGet(m, C_total) = 360

\* the JSON object rank_suppliers iterates over, when the reply has one
RankingData ==
    LET m == json_match(chat_with_openai(r_in).ret)
    IN  IF m = None \/ json_loads(m[1]) = None THEN <<>>
        ELSE json_loads(m[1])[1].items

\* a JSON number
IsNumber(v) == v.t \in {"int", "float"}

\* C4: for every supplier entry that is a mapping, a criterion that is
\* absent or whose value is not a number is stored as 3.0 and a number v is
\* stored as min(5, max(0, v)); the reply {"SupplierA": {"product_quality": 5}}
\* gives product_quality 5.0, the six others 3.0 and total 3.5.
C4_DefaultsAndClamp ==
    r_out.run =>
        /\ \A i \in 1..Len(RankingData) :
             RankingData[i].v.t = "dict" =>
               LET scores == RankingData[i].v.items
                   stored == DictGet(r_out.call.ret[1], RankingData[i].k)
               IN  \A k \in 1..Len(criteria_weights) :
                     LET c == criteria_weights[k].criterion
                     IN  IF DictHas(scores, c) /\ IsNumber(DictGet(scores, c))
                         THEN DictGet(stored, c)
                                = Min(500, Max(0, DictGet(scores, c).n))
                         ELSE DictGet(stored, c) = 300
        /\ r_in = Reply(ReplyExample) =>
             /\ Len(r_out.call.ret[1]) = 1
             /\ LET m == r_out.call.ret[1][1].v
                IN  /\ DictGet(m, C_product_quality) = 500
                    /\ DictGet(m, C_total) = 350
                    /\ \A k \in 2..Len(criteria_weights) :
                           DictGet(m, criteria_weights[k].criterion) = 300

\* the reply has no '{' followed somewhere by '}'
NoBraceSpan(text) ==
    ~\E i \in 1..Len(text) : \E j \in (i + 1)..Len(text) :
        text[i] = "{" /\ text[j] = "}"

\* C8: when the reply has no '{'...'}' substring, or that substring is not
\* valid JSON, rank_suppliers reports an error and returns None, never a
\* partially populated ranking.
C8_ParseErrorReturnsNone ==
    LET response == chat_with_openai(r_in).ret
    IN  (r_out.run /\ (NoBraceSpan(response)
                       \/ json_loads(json_match(response)[1]) = None))
            => (/\ r_out.call.ret = None
                /\ r_out.call.msgs # <<>>
                /\ r_out.call.msgs[Len(r_out.call.msgs)]
                      \in {"No valid JSON found", "Unable to parse JSON"})

\* a reply whose brace span runs over two objects and is not valid JSON
C8_Witness ==
    /\ r_out.run
    /\ r_in = Reply(ReplyTwoObjects)
    /\ r_out.call.ret = None

(***************************************************************************)
(* Properties of format_deep_scrape_output (SpecFormat)                    *)
(***************************************************************************)
InLines == Split(t_in, "\n")
OutLines == Split(t_out.call.ret, "\n")

\* C5: format(format(x)) has the same sections, contents and line order
\* as format(x), also when x is in multiple-suppliers mode.
C5_Idempotent ==
    t_out2.run => t_out2.call = t_out.call

\* the lines of the input that contain "supplier details" in any case
SupplierCount == Cardinality(supplier_lines(InLines))

\* of those, the lines that contain neither "phone number" nor "email"
SupplierOnlyCount ==
    Cardinality({i \in supplier_lines(InLines) :
        /\ ~Contains(Lower(InLines[i]), Lower(KeyPhoneNumber))
        /\ ~Contains(Lower(InLines[i]), Lower(KeyEmail))})

\* the output line is the header of the indexed supplier block k
IsBlockHeader(line, k) == StartsWith(line, 1, SupplierLine(k, <<>>))
BlockHeaders(out) ==
    {i \in 1..Len(out) : \E k \in 1..Len(InLines) : IsBlockHeader(out[i], k)}

\* the output out has exactly n indexed supplier blocks, numbered 1..n in
\* this order, at the lines headers
Numbered(out, headers, n) ==
    /\ Cardinality(headers) = n
    /\ \A k \in 1..n : \E i \in headers :
          /\ IsBlockHeader(out[i], k)
          /\ Cardinality({j \in headers : j <= i}) = k

\* the marker is the first output line and there are exactly n indexed
\* supplier blocks, numbered 1..n in this order
HasBlocks(n) ==
    \A out \in {OutLines} :
        out[1] = TxtMarker /\ Numbered(out, BlockHeaders(out), n)

\* C6 as stated: every input with exactly N > 1 lines that contain
\* "supplier details" gives exactly N indexed supplier blocks numbered 1..N
\* and the marker as first output line.
C6_Original ==
    (t_out.run /\ SupplierCount > 1) => HasBlocks(SupplierCount)

\* C6 amended: for an input without "Error" that has N > 1 lines containing
\* "supplier details", the marker is the first output line and there is one
\* indexed supplier block, numbered in order from 1, for each of those lines
\* that contains neither "phone number" nor "email" (N blocks when none does).
C6_BlocksPerSupplierLine ==
    (t_out.run /\ SupplierCount > 1 /\ ~Contains(t_in, TxtError))
        => HasBlocks(SupplierOnlyCount)

\* three "supplier details" header lines give three indexed blocks
C6_Witness ==
    /\ t_out.run
    /\ ~Contains(t_in, TxtError)
    /\ SupplierCount = 3
    /\ SupplierOnlyCount = 3
    /\ HasBlocks(3)

\* the output lines that are the entry of a section: "**<display_name>**: ..."
Entries(display_name) ==
    {i \in 1..Len(OutLines) : StartsWith(OutLines[i], 1, SectionLine(display_name, <<>>))}

\* C7 as stated: for every input the output has exactly one entry for each
\* of the 7 canonical sections.
C7_Original ==
    t_out.run =>
        \A k \in 1..Len(sections) :
            Cardinality(Entries(sections[k].display_name)) = 1

\* C7 amended: for every input without "Error", each of the 7 canonical
\* display names occurs in at least one output line; a section has one entry
\* per input header line that names it, so it can have several.
C7_EverySectionNamed ==
    (t_out.run /\ ~Contains(t_in, TxtError))
        => \A k \in 1..Len(sections) : Present(sections[k].display_name, OutLines)

\* two Location header lines: two Location entries, and defaults for the rest
C7_Witness ==
    /\ t_out.run
    /\ t_in = Join(<<LineLocation, LineLocationBullet>>, NL)
    /\ Cardinality(Entries(KeyLocation)) = 2
    /\ Cardinality(Entries(NameEmails)) = 1


(***************************************************************************)
(* Further properties of rank_suppliers (SpecRank)                         *)
(***************************************************************************)
\* C11: for every LLM reply (valid JSON or not, supplier entries of any value
\* type, with or without numeric scores) rank_suppliers of final.py and of
\* ui10.py returns a mapping or None, and no exception escapes it.
C11_NoExceptionEscapes ==
    /\ r_out.run => (r_out.call.ret = None \/ Len(r_out.call.ret) = 1)
    /\ r_out10.run =>
          /\ r_out10.call.exc = None
          /\ (r_out10.call.ret = None \/ Len(r_out10.call.ret) = 1)


\* the keys of a stored score map
KeysOf(m) == {m[i].k : i \in 1..Len(m)}

FixedKeys ==
    {C_product_quality, C_certifications, C_customer_reviews, C_price_competitiveness,
     C_manufacturing_capabilities, C_reliability, C_innovation, C_total}

\* C15: every score map of a ranking result has exactly the keys of the 7
\* criteria and total, each once; every criterion score is in [0, 5]; a key
\* the model added is not stored.
C15_ExactlyTheFixedKeys ==
    \A m \in ScoreMaps :
        /\ KeysOf(m) = FixedKeys
        /\ Len(m) = Cardinality(FixedKeys)
        /\ \A i \in 1..Len(m) :
              m[i].k # C_total => (0 <= m[i].v /\ m[i].v <= 5 * SCALE)

\* a reply with the extra key "notes" and a score above 5
C15_Witness ==
    /\ r_out.run
    /\ r_in = Reply(Braces(Quote(<<"A">>) \o Colon \o Braces(
                 Quote(C_notes) \o Colon \o <<"4">> \o Sep \o
                 Quote(C_reliability) \o Colon \o <<"7">>)))
    /\ \E m \in ScoreMaps :
          /\ C_notes \notin KeysOf(m)
          /\ DictGet(m, C_reliability) = 5 * SCALE

\* the supplier names of a parsed object whose value is a mapping
MappingNames(data) ==
    {data[i].k : i \in {j \in 1..Len(data) : data[j].v.t = "dict"}}

\* C16: the result of rank_suppliers contains exactly the supplier names of
\* the parsed JSON object whose value is a mapping; other entries are
\* skipped, so the result can be the empty mapping, which the rank button
\* handler reports as a failed ranking.
C16_OnlyMappingEntries ==
    r_out.run =>
        \A object \in {json_loads(m[1]) : m \in {json_match(chat_with_openai(r_in).ret)} \ {None}} :
            object # None =>
                \A names \in {MappingNames(object[1].items)} :
                    /\ r_out.call.ret # None
                    /\ KeysOf(r_out.call.ret[1]) = names
                    /\ Len(r_out.call.ret[1]) = Cardinality(names)
                    /\ names = {} =>
                          (r_out.call.ret = Some(<<>>)
                           /\ rank_button(r_out.call.ret) = "Failed to rank")

\* {"A": 3, "B": {}}: A is skipped, B is ranked
C16_Witness ==
    /\ r_out.run
    /\ r_in = Reply(Braces(Quote(<<"A">>) \o Colon \o <<"3">> \o Sep \o
                           Quote(<<"B">>) \o Colon \o <<"{", "}">>))
    /\ KeysOf(r_out.call.ret[1]) = {<<"B">>}
    /\ rank_button(r_out.call.ret) = "stored"

\* the number of characters c in text[i..j]
CountIn(text, i, j, c) == Cardinality({k \in i..j : text[k] = c})

\* the first balanced {...} substring of the text: from the first '{' to the
\* first position where as many '}' as '{' have been read; <<>> without one
FirstBalanced(text) ==
    LET opens == {i \in 1..Len(text) : text[i] = "{"}
        first == CHOOSE i \in opens : \A j \in opens : i <= j
        ends == {j \in first..Len(text) :
                    CountIn(text, first, j, "{") = CountIn(text, first, j, "}")}
        final == CHOOSE j \in ends : \A k \in ends : j <= k
    IN  IF opens = {} \/ ends = {} THEN <<>> ELSE SubSeq(text, first, final)

\* the text is a valid JSON object followed by text that has another '}'
ObjectThenBrace(text) ==
    LET object == FirstBalanced(text)
        opens == {i \in 1..Len(text) : text[i] = "{"}
        first == CHOOSE i \in opens : \A j \in opens : i <= j
    IN  /\ object # <<>>
        /\ json_loads(object) # None
        /\ \E k \in (first + Len(object))..Len(text) : text[k] = "}"

\* C19: rank_suppliers parses the first balanced {...} object of the reply:
\* for a valid JSON object followed by text that contains another '}', the
\* ranking is the one computed from that first object.
C19_FirstBalancedObject ==
    LET response == chat_with_openai(r_in).ret
    IN  (r_out.run /\ ObjectThenBrace(response))
            => \E ups \in [1..MaxSuppliers -> BOOLEAN] :
                  r_out.call.ret = rank_suppliers(Reply(FirstBalanced(response)), ups).ret

(***************************************************************************)
(* Further properties of extract_webpage_text (SpecFetch)                  *)
(***************************************************************************)
\* a response after which the loop tries again: a block signal or a
\* network exception
IsNetworkError(response) == response.kind = "exc"
IsRetried(response) == IsBlock(response) \/ IsNetworkError(response)

\* an HTTP status other than 200, 403, 429
IsHardFailure(response) ==
    response.kind = "http" /\ response.status \notin {200, 403, 429}

\* the first response that is neither a block signal nor a network
\* exception; 0 when there is none among the f_retries responses
FirstDecisive ==
    LET hits == {i \in 1..f_retries : ~IsRetried(f_resp[i])}
    IN  IF hits = {} THEN 0 ELSE CHOOSE i \in hits : \A j \in hits : i <= j

\* 5 s for each block signal and 3 s for each network exception among the
\* first k responses
WaitOver(k) ==
      5 * Cardinality({i \in 1..k : IsBlock(f_resp[i])})
    + 3 * Cardinality({i \in 1..k : IsNetworkError(f_resp[i])})

\* C12: when a response has an HTTP status other than 200, 403 or 429, the
\* call returns None at once: the failing GET is the last one and no wait
\* follows it, whatever attempts remain.
C12_HardFailureStopsAtOnce ==
    (f_out.run /\ FirstDecisive # 0 /\ IsHardFailure(f_resp[FirstDecisive]))
        => (/\ f_out.call.ret = None
            /\ f_out.call.gets = FirstDecisive
            /\ f_out.call.waited = WaitOver(FirstDecisive - 1)
            /\ f_out.call.msgs[Len(f_out.call.msgs)] = "status")

\* a 500 on the second of three attempts, after one block signal
C12_Witness ==
    /\ f_out.run
    /\ f_retries = 3
    /\ f_resp[1] = Http(403, <<>>)
    /\ f_resp[2] = Http(500, <<>>)
    /\ f_out.call.gets = 2
    /\ f_out.call.waited = 5
    /\ f_out.call.ret = None


\* C13: for every sequence of responses, each block signal and each network
\* exception consumes exactly one attempt, the call ends after at most
\* max_retries GET requests, and it returns page text if and only if the
\* first response that is neither of the two arrives within the first
\* max_retries attempts and is HTTP 200.
C13_RetriesConsumeAttempts ==
    f_out.run =>
        /\ f_out.call.gets <= f_retries
        /\ f_out.call.gets = (IF FirstDecisive = 0 THEN f_retries ELSE FirstDecisive)
        /\ (f_out.call.ret # None)
              <=> (FirstDecisive # 0 /\ f_resp[FirstDecisive].status = 200)
        /\ f_out.call.ret # None => f_out.call.ret = Some(f_resp[FirstDecisive].text)

\* a block signal, then a network exception, then the page on the last attempt
C13_Witness ==
    /\ f_out.run
    /\ f_retries = 3
    /\ f_resp[1] = Http(429, <<>>)
    /\ f_resp[2] = NetworkError
    /\ f_resp[3] = Http(200, PageText)
    /\ f_out.call.gets = 3
    /\ f_out.call.ret = Some(PageText)


(***************************************************************************)
(* Further properties of deep_scrape_website and its cache (Spec)          *)
(***************************************************************************)
\* the cache holds at most maxsize records, one per url
CacheWithinCapacity ==
    /\ Len(cache) <= maxsize
    /\ \A i, j \in 1..Len(cache) : cache[i].key = cache[j].key => i = j

\* a step that inserts a record into a full cache drops exactly one record,
\* and every other record was used (inserted or hit) after the last use of
\* the dropped one
EvictsLeastRecentlyUsed ==
    \A url \in Urls :
        (url \notin CacheKeys /\ url \in CacheKeys' /\ Len(cache) = maxsize)
            => \E evicted \in CacheKeys :
                  /\ CacheKeys' = (CacheKeys \ {evicted}) \cup {url}
                  /\ \A kept \in CacheKeys \ {evicted} : kept \in since[evicted]

\* C14: after any sequence of calls the cache holds at most maxsize (128 in
\* the source) records, one per distinct url; the insertion of one more
\* distinct url evicts the least recently used record, a hit being a use.
C14_BoundedLru == [](CacheWithinCapacity) /\ [][EvictsLeastRecentlyUsed]_vars

\* the cache is full, the last call inserted its url, and a url that was
\* extracted before has lost its record
C14_Witness ==
    /\ last.run /\ ~last.hit
    /\ Len(cache) = maxsize
    /\ cache[Len(cache)].key = last.url
    /\ \E u \in Urls : prev[u].run /\ u \notin CacheKeys /\ u # last.url


\* C18: when the fetch inside deep_scrape_website returns None, the call
\* returns the pair ("No data extracted. ..." message, None) and makes no
\* LLM call.
C18_FailedFetchGivesNoData ==
    (last.run /\ ~last.hit /\ last.absent)
        => (/\ last.exc = None
            /\ last.ret = <<TxtNoData, None>>
            /\ last.llm = <<>>)

\* a call whose three attempts were all used up without a page
C18_Witness ==
    /\ last.run /\ ~last.hit /\ last.absent
    /\ last.gets = DEFAULT_RETRIES
    /\ last.ret[1] = TxtNoData
    /\ last.ret[2] = None

(***************************************************************************)
(* Properties of deep_scrape_website under concurrent callers (SpecRace)   *)
(***************************************************************************)
\* C17: the cache has no single-flight guard: a caller that requests an
\* uncached url while another caller's computation for the same url is
\* running does not wait for it; both run the whole body, each with its own
\* HTTP fetch and, when the page was fetched, its own two LLM calls.
C17_RacingCallersBothCompute ==
    \A c \in Callers :
        (inflight[c].pc = "done" /\ inflight[c].raced)
            => (/\ ~inflight[c].hit
                /\ inflight[c].gets >= 1
                /\ ~inflight[c].absent => Len(inflight[c].llm) = 2)

\* two callers raced on one url: each fetched the page and made two LLM
\* calls, and the cache holds a single record for the url
C17_Witness ==
    /\ \A c \in Callers :
          /\ inflight[c].pc = "done" /\ inflight[c].raced
          /\ inflight[c].url = "u1"
          /\ inflight[c].gets = 1
          /\ Len(inflight[c].llm) = 2
    /\ Cardinality({i \in 1..Len(cache) : cache[i].key = "u1"}) = 1


(***************************************************************************)
(* Further properties of format_deep_scrape_output (SpecFormat)            *)
(***************************************************************************)
\* the section a line is a header of: the first of the 7 keywords it
\* contains, in any case; 0 for a line that contains none
HeaderOf(line) ==
    LET hits == {k \in 1..Len(sections) :
                    Contains(Lower(Strip(line)), Lower(sections[k].key))}
    IN  IF hits = {} THEN 0 ELSE CHOOSE k \in hits : \A j \in hits : k <= j

\* the header lines of the input for the flat sections, and for the
\* supplier blocks, each in input order
FlatHeaders ==
    SelectSeq(InLines, LAMBDA l : HeaderOf(l) # 0
                                    /\ sections[HeaderOf(l)].key # KeySupplierDetails)
BlockInput ==
    SelectSeq(InLines, LAMBDA l : HeaderOf(l) # 0
                                    /\ sections[HeaderOf(l)].key = KeySupplierDetails)

IsContinuation(line) == StartsWith(line, 1, <<" ", " ", "-", " ">>)
DefaultLine(k) ==
    SectionLine(sections[k].display_name, DefaultText(sections[k].display_name))

\* the output lines out are: the marker; lines 2..a, one flat section line
\* per flat header of the input (names: their display names in input order);
\* lines a+1..b, the blocks 1..n, each a header line followed by its indented
\* lines; lines b+1.., default lines in the order of the sections
Layout(out, names, n, a, b) ==
    /\ out[1] = TxtMarker
    /\ a - 1 = Len(names)
    /\ \A i \in 1..Len(names) : StartsWith(out[i + 1], 1, SectionLine(names[i], <<>>))
    /\ \A i \in (a + 1)..b :
          \/ \E k \in 1..n : IsBlockHeader(out[i], k)
          \/ (i > a + 1 /\ IsContinuation(out[i]))
    /\ \A k \in 1..n : \E i \in (a + 1)..b :
          /\ IsBlockHeader(out[i], k)
          /\ Cardinality({j \in (a + 1)..i : \E m \in 1..n : IsBlockHeader(out[j], m)}) = k
    /\ \A i \in (b + 1)..Len(out) : \E k \in 1..Len(sections) :
          /\ out[i] = DefaultLine(k)
          /\ \A j \in (b + 1)..(i - 1) : \E m \in 1..(k - 1) : out[j] = DefaultLine(m)

\* C20: in multiple-suppliers mode the output is ordered as: the marker
\* first, then every flat section line in input order, then all indexed
\* supplier blocks in index order 1..N (each header line followed by its
\* indented continuation lines), then the default lines of missing sections.
C20_MarkerFlatBlocksDefaults ==
    (t_out.run /\ ~Contains(t_in, TxtError) /\ SupplierCount > 1)
        => LET out == OutLines
               flat == FlatHeaders
               names == [i \in 1..Len(flat) |-> sections[HeaderOf(flat[i])].display_name]
               n == Len(BlockInput)
           IN  \E a \in 1..Len(out) : \E b \in a..Len(out) : Layout(out, names, n, a, b)

\* a Location line that follows the two supplier lines in the input stands
\* before both blocks in the output
C20_Witness ==
    /\ t_out.run
    /\ t_in = Join(<<LineSupplier, LineSupplierLower, LineLocation>>, NL)
    /\ StartsWith(OutLines[2], 1, SectionLine(KeyLocation, <<>>))
    /\ IsBlockHeader(OutLines[3], 1)
    /\ IsBlockHeader(OutLines[4], 2)
    /\ OutLines[5] = DefaultLine(1)


(***************************************************************************)
(* Continuation lines of format_deep_scrape_output (SpecFormat)            *)
(***************************************************************************)
\* the input lines as the line loop sees them
Stripped(lines) == [i \in 1..Len(lines) |-> Strip(lines[i])]

\* each line with the section it is a header of (0: of none)
Headers(lines) == {<<h, HeaderOf(lines[h])>> : h \in 1..Len(lines)}
SectionAt(heads, h) == CHOOSE k \in 0..Len(sections) : <<h, k>> \in heads

\* the header lines, and the non-blank lines that contain no keyword
HeaderLines(heads) == {p[1] : p \in {q \in heads : q[2] # 0}}
PlainLines(lines, heads) == {p[1] : p \in {q \in heads : q[2] = 0 /\ lines[q[1]] # <<>>}}

\* the plain lines that follow a header line, from line i on, in input order
RECURSIVE ContsFrom(_, _, _)
ContsFrom(lines, heads, i) ==
    IF i > Len(lines) \/ <<i, 0>> \notin heads THEN <<>>
    ELSE IF lines[i] = <<>> THEN ContsFrom(lines, heads, i + 1)
    ELSE <<lines[i]>> \o ContsFrom(lines, heads, i + 1)

\* the header lines that open an indexed supplier block
BlockOpeners(heads, multi) ==
    {p[1] : p \in {q \in heads : multi /\ q[2] # 0
                                  /\ sections[q[2]].display_name = KeySupplierDetails}}

Indented(line) == <<" ", " ", "-", " ">> \o line
RECURSIVE SpaceJoined(_, _)
SpaceJoined(head, conts) ==
    IF conts = <<>> THEN head ELSE SpaceJoined(head \o <<" ">> \o Head(conts), Tail(conts))

\* the output out holds the entry of header line h of section k, with content
\* and with the plain lines conts that follow h: indented lines under the
\* block header of the active supplier n, or joined with spaces to the
\* section line (n = 0)
EntryKept(out, k, n, content, conts) ==
    IF n > 0
    THEN \E j \in 1..Len(out) :
            /\ out[j] = SupplierLine(n, content)
            /\ j + Len(conts) <= Len(out)
            /\ \A m \in 1..Len(conts) : out[j + m] = Indented(conts[m])
    ELSE \E e \in {SpaceJoined(SectionLine(sections[k].display_name, content), conts)} :
            \E j \in 1..Len(out) : out[j] = e

\* every header line of lines has its entry in out
EntriesKept(lines, out, heads, openers) ==
    \A h \in HeaderLines(heads) :
        EntryKept(out, SectionAt(heads, h),
                  IF h \in openers THEN Cardinality({g \in openers : g <= h}) ELSE 0,
                  Content(lines[h], sections[SectionAt(heads, h)].key),
                  ContsFrom(lines, heads, h + 1))

\* the plain line is found in the output out, as an indented line or as the
\* end of a line it was joined to
LineKept(out, line) ==
    \E j \in 1..Len(out) :
        \/ out[j] = Indented(line)
        \/ /\ Len(out[j]) > Len(line)
           /\ SubSeq(out[j], Len(out[j]) - Len(line), Len(out[j])) = <<" ">> \o line
        \/ \E e \in (Len(line) + 2)..Len(out[j]) :
              SubSeq(out[j], e - Len(line) - 1, e) = <<" ">> \o line \o <<" ">>

\* C21 as stated: every non-blank input line that matches no header keyword
\* is kept as a continuation, in a supplier block or joined to an output
\* line; no such line is dropped.
C21_Original ==
    (t_out.run /\ ~Contains(t_in, TxtError)) =>
        \A lines \in {Stripped(InLines)} : \A out \in {OutLines} :
            \A i \in PlainLines(lines, Headers(lines)) : LineKept(out, lines[i])

\* C21 amended: every non-blank input line that matches no header keyword
\* and follows a header line is kept as a continuation: in multiple-suppliers
\* mode under a Supplier Details header it is an indented line of the active
\* supplier block, otherwise it is space-joined to the section line of the
\* header it follows; the lines of one header keep their input order.
C21_ContinuationsKept ==
    (t_out.run /\ ~Contains(t_in, TxtError)) =>
        \A lines \in {Stripped(InLines)} : \A out \in {OutLines} :
            \A heads \in {Headers(lines)} :
                /\ t_out.call.exc = None
                /\ EntriesKept(lines, out, heads,
                               BlockOpeners(heads, multiple_suppliers(lines)))
                /\ \A i \in PlainLines(lines, heads) :
                      (\E h \in HeaderLines(heads) : h < i) => LineKept(out, lines[i])

\* a plain line after the second supplier header is an indented line of the
\* block of supplier 2
C21_Witness ==
    /\ t_out.run
    /\ t_in = Join(<<LineSupplier, LineSupplierLower, LineMainSupplier>>, NL)
    /\ OutLines[3] = SupplierLine(2, <<"B","o","l","t">>)
    /\ OutLines[4] = Indented(Strip(LineMainSupplier))
    /\ LineKept(OutLines, Strip(LineMainSupplier))


\* the text of line that follows the first occurrence of key, in any case
AfterKeyword(line, key) ==
    LET low == Lower(line)
        at == {p \in 1..(Len(line) - Len(key) + 1) :
                  SubSeq(low, p, p + Len(key) - 1) = Lower(key)}
        first == CHOOSE p \in at : \A q \in at : p <= q
    IN  Strip(SubSeq(line, first + Len(key), Len(line)))

\* C22: for a header line that contains no colon, the content recorded by
\* format_deep_scrape_output is the text that follows the header keyword in
\* that line, wherever the keyword occurs in the line.
C22_ContentFollowsKeyword ==
    (t_out.run /\ ~Contains(t_in, TxtError)) =>
        \A lines \in {Stripped(InLines)} : \A out \in {OutLines} :
            \A h \in HeaderLines(Headers(lines)) :
                ~Contains(lines[h], <<":">>) =>
                    \A content \in {AfterKeyword(lines[h], sections[HeaderOf(lines[h])].key)} :
                        \E j \in 1..Len(out) :
                            \/ StartsWith(out[j], 1,
                                  SectionLine(sections[HeaderOf(lines[h])].display_name, content))
                            \/ \E n \in 1..Len(lines) :
                                  StartsWith(out[j], 1, SupplierLine(n, content))


(***************************************************************************)
(* The backoff of extract_webpage_text (SpecFetch)                         *)
(***************************************************************************)
\* C23: the total backoff wait of one extract_webpage_text call never
\* exceeds max_retries x 5 seconds: it is 5 s for each block signal (403/429)
\* and 3 s for each network exception among the attempts made, and no wait
\* follows an HTTP 200 or a hard HTTP failure.
C23_BackoffBounded ==
    f_out.run =>
        /\ f_out.call.waited <= 5 * f_retries
        /\ f_out.call.waited = WaitOver(f_out.call.gets)
        /\ FirstDecisive # 0 =>
              /\ f_out.call.gets = FirstDecisive
              /\ f_out.call.waited = WaitOver(FirstDecisive - 1)

\* three block signals: the bound of 15 s is reached
C23_Witness ==
    /\ f_out.run
    /\ f_retries = 3
    /\ \A i \in 1..3 : IsBlock(f_resp[i])
    /\ f_out.call.gets = 3
    /\ f_out.call.waited = 15


(***************************************************************************)
(* The "Error" pass-through of format_deep_scrape_output (SpecFormat)      *)
(***************************************************************************)
\* the 7 default lines, in the order of the sections
AllDefaults == [k \in 1..Len(sections) |-> DefaultLine(k)]

\* C24: format_deep_scrape_output returns its input unchanged, with no
\* section parsing and no default lines, whenever the input contains the
\* case-sensitive substring "Error" anywhere; the error string produced by
\* chat_with_openai does not contain "Error" and is parsed as ordinary text.
C24_ErrorPassThrough ==
    t_out.run =>
        /\ Contains(t_in, TxtError) => t_out.call = [exc |-> None, ret |-> t_in]
        /\ t_in = TxtApiError =>
              /\ ~Contains(t_in, TxtError)
              /\ t_out.call.exc = None
              /\ t_out.call.ret # t_in
              /\ OutLines = AllDefaults

\* a text with two header lines and "Error" in its last line comes back as
\* it is
C24_Witness ==
    /\ t_out.run
    /\ t_in = Join(<<LinePhone, LineLocation, LineError>>, NL)
    /\ t_out.call.ret = t_in
    /\ ~Present(DefaultText(NameEmails), OutLines)


(***************************************************************************)
(* Lines with several keywords (SpecFormat)                                *)
(***************************************************************************)
\* the keywords and their display names in the fixed order
KeywordOrder ==
    <<KeyPhoneNumber, KeyEmail, KeySupplierDetails, KeyLocation, KeyProductPricing,
      KeyISOCertifications, KeyManufacturingProcessSummary>>
DisplayOrder ==
    <<NamePhoneNumbers, NameEmails, KeySupplierDetails, KeyLocation, KeyProductPricing,
      KeyISOCertifications, KeyManufacturingProcessSummary>>
SupplierDetailsAt ==
    CHOOSE k \in 1..Len(KeywordOrder) : KeywordOrder[k] = KeySupplierDetails

\* the first keyword in the fixed order that the line contains, in any case
FirstKeyword(line) ==
    LET hits == {k \in 1..Len(KeywordOrder) : Contains(Lower(line), Lower(KeywordOrder[k]))}
    IN  IF hits = {} THEN 0 ELSE CHOOSE k \in hits : \A j \in hits : k <= j
\* the lines with the first keyword each of them contains
FirstKeywords(lines) == {<<h, FirstKeyword(lines[h])>> : h \in 1..Len(lines)}
AssignedTo(firsts, k) == {p \in firsts : p[2] = k}

\* the lines that count for the multiple-suppliers mode
CountedLines(lines) ==
    {h \in 1..Len(lines) : Contains(Lower(lines[h]), Lower(KeywordOrder[SupplierDetailsAt]))}

\* the numbers of output lines that start a section entry, and that start
\* an indexed supplier block
EntryCount(out, k) ==
    Cardinality({j \in 1..Len(out) : StartsWith(out[j], 1, SectionLine(DisplayOrder[k], <<>>))})
BlockCount(out) ==
    Cardinality({j \in 1..Len(out) : \E n \in 1..Len(out) : IsBlockHeader(out[j], n)})

\* the entries and the blocks of the output out agree with the first
\* keywords firsts of the input lines, counted of which are the lines that
\* count for the mode and plain those of them without "phone number" and
\* "email"
CountsAgree(out, firsts, blocks, counted, plain) ==
    /\ \A k \in 1..Len(KeywordOrder) :
          IF counted > 1 /\ k = SupplierDetailsAt
          THEN /\ blocks = Cardinality(AssignedTo(firsts, k))
               /\ EntryCount(out, k) <= 1
          ELSE AssignedTo(firsts, k) # {} =>
                  EntryCount(out, k) = Cardinality(AssignedTo(firsts, k))
    /\ counted > 1 => (blocks = plain /\ blocks <= counted)

\* C25: a line that contains more than one header keyword is assigned to the
\* first matching keyword in the fixed order; consequently in
\* multiple-suppliers mode the number of indexed supplier blocks equals the
\* number of "supplier details" lines that contain neither "phone number" nor
\* "email", and may be smaller than the count that activated the mode.
C25_FirstKeywordWins ==
    (t_out.run /\ ~Contains(t_in, TxtError)) =>
        \A lines \in {InLines} : \A out \in {OutLines} :
            \A firsts \in {FirstKeywords(lines)} :
                \A blocks \in {BlockCount(out)} :
                    \A counted \in {CountedLines(lines)} :
                        CountsAgree(out, firsts, blocks, Cardinality(counted),
                            Cardinality({h \in counted :
                                /\ ~Contains(Lower(lines[h]), Lower(KeywordOrder[1]))
                                /\ ~Contains(Lower(lines[h]), Lower(KeywordOrder[2]))}))

\* three lines activate the mode, one of them is an Email line: two blocks
C25_Witness ==
    /\ t_out.run
    /\ t_in = Join(<<LineSupplier, LineEmailSupplier, LineSupplierLower>>, NL)
    /\ Cardinality(CountedLines(InLines)) = 3
    /\ BlockCount(OutLines) = 2
    /\ EntryCount(OutLines, 2) = 1
    /\ OutLines[2] = SectionLine(NameEmails, <<"s","e","e"," ","S","u","p","p","l","i","e","r"," ","D","e","t","a","i","l","s">>)


(***************************************************************************)
(* The Supplier Details default in multiple-suppliers mode (SpecFormat)    *)
(***************************************************************************)
\* "**Supplier Details**: Not found in the text."
SupplierDetailsDefault == SectionLine(KeySupplierDetails, TxtNotFound)

\* the other output lines that contain the literal text "Supplier Details"
NamesSupplierDetails(out) ==
    {j \in 1..Len(out) : out[j] # SupplierDetailsDefault /\ Contains(out[j], KeySupplierDetails)}

\* C26: in multiple-suppliers mode, unless some output line contains the
\* literal text "Supplier Details", the default line "Supplier Details: Not
\* found in the text." is appended in addition to the indexed "Supplier N
\* Details" blocks: the block headers do not count in the presence check.
C26_SupplierDefaultBesideBlocks ==
    (t_out.run /\ ~Contains(t_in, TxtError) /\ SupplierCount > 1) =>
        \A out \in {OutLines} :
            /\ NamesSupplierDetails(out) = {} <=>
                  Cardinality({j \in 1..Len(out) : out[j] = SupplierDetailsDefault}) = 1
            /\ NamesSupplierDetails(out) # {} =>
                  \A j \in 1..Len(out) : out[j] # SupplierDetailsDefault

\* two supplier blocks, and the Supplier Details default after them
C26_Witness ==
    /\ t_out.run
    /\ t_in = Join(<<LineSupplier, LineSupplierLower>>, NL)
    /\ IsBlockHeader(OutLines[2], 1)
    /\ IsBlockHeader(OutLines[3], 2)
    /\ OutLines[6] = SupplierDetailsDefault


(***************************************************************************)
(* The parser states of format_deep_scrape_output (SpecFormat)             *)
(***************************************************************************)
\* the line is processed by the continuation branch in the parser state st
IsContinuationStep(st, rawline) ==
    /\ Strip(rawline) # <<>>
    /\ FirstKeyword(Strip(rawline)) = 0
    /\ st.current_section # None

\* what the continuation branch indexes is there
TargetExists(st) ==
    IF st.multiple /\ st.current_section = KeySupplierDetails
    THEN /\ st.supplier_index >= 1
         /\ st.supplier_index <= Len(st.supplier_data)
         /\ st.supplier_data[st.supplier_index] # <<>>
    ELSE /\ st.formatted_output # <<>>
         /\ st.formatted_output[Len(st.formatted_output)] # TxtMarker
         /\ StartsWith(st.formatted_output[Len(st.formatted_output)], 1,
                       SectionLine(st.current_section, <<>>))

\* TargetExists holds in every parser state from st on in which one of the
\* lines k.. is processed as a continuation
RECURSIVE SafeFrom(_, _, _)
SafeFrom(st, lines, k) ==
    \/ k > Len(lines)
    \/ /\ st.exc = None
       /\ IsContinuationStep(st, lines[k]) => TargetExists(st)
       /\ SafeFrom(FormatLine(st, lines[k]), lines, k + 1)

\* C27: format_deep_scrape_output never indexes an empty output list or a
\* missing supplier block: whenever a continuation line is processed with a
\* current section set, either the mode is multiple-suppliers with current
\* section "Supplier Details" and the block of the current supplier index
\* exists, or the flat output list is non-empty and its last element is a
\* section line, never the marker line.
C27_ContinuationTargetExists ==
    t_out.run =>
        /\ t_out.call.exc = None
        /\ ~Contains(t_in, TxtError) =>
              \A lines \in {InLines} : SafeFrom(FormatStart(lines), lines, 1)

\* a continuation line after a Location header is joined to the Location line
C27_Witness ==
    /\ t_out.run
    /\ t_in = Join(<<LineLocation, LineDetailsHere>>, NL)
    /\ IsContinuationStep(FormatLoop(InLines, 1), InLines[2])
    /\ TargetExists(FormatLoop(InLines, 1))
    /\ OutLines[1] = SectionLine(KeyLocation, <<"X">>) \o <<" ">> \o LineDetailsHere


(***************************************************************************)
(* The empty-output branch of format_deep_scrape_output (SpecFormat)       *)
(***************************************************************************)
\* C30: format_deep_scrape_output never returns the "No structured data
\* extracted." sentinel: for every input that does not contain "Error" the
\* output list holds at least one line after the defaults step, so the
\* empty-output branch is unreachable.
C30_SentinelUnreachable ==
    t_out.run =>
        /\ t_out.call.ret # TxtNoStructured
        /\ ~Contains(t_in, TxtError) =>
              /\ t_out.call.exc = None
              /\ FormatLines(t_in) # <<>>
              /\ t_out.call.ret # <<>>

\* the empty reply: no line is produced by the loop, the 7 defaults are the
\* output
C30_Witness ==
    /\ t_out.run
    /\ t_in = <<>>
    /\ FormatLoop(InLines, Len(InLines)).formatted_output = <<>>
    /\ OutLines = AllDefaults


(***************************************************************************)
(* The LLM calls of deep_scrape_website (Spec)                             *)
(***************************************************************************)
\* C29: an uncached deep_scrape_website call makes exactly two LLM calls,
\* the extraction call and then the summary call, when the fetched text is
\* non-empty, and zero LLM calls when the fetch returns absent or empty
\* text; the summary call is made even when the extraction call failed.
C29_TwoLlmCallsOrNone ==
    (last.run /\ ~last.hit) =>
        IF last.fetched # None /\ last.fetched[1] # <<>>
        THEN /\ Len(last.llm) = 2
             /\ last.llm[1].prompt = "extract"
             /\ last.llm[2].prompt = "summary"
             /\ last.llm[2].context = last.llm[1].context
        ELSE last.llm = <<>>

\* the extraction call fails and the summary call is made and answered
C29_Witness ==
    /\ last.run
    /\ ~last.hit
    /\ last.fetched = Some(PageText)
    /\ Len(last.llm) = 2
    /\ last.llm[1].raised
    /\ last.llm[2].prompt = "summary"
    /\ ~last.llm[2].raised
    /\ last.ret[2] = Some(SummaryReply)


(***************************************************************************)
(* The stored rankings of a session (SpecSession)                          *)
(***************************************************************************)
\* the stored ranking is a non-empty mapping whose first supplier's score
\* map has a "total" key
Displayable(stored) ==
    /\ stored # None
    /\ stored[1] # <<>>
    /\ C_total \in KeysOf(stored[1][1].v)

\* the last click stored a ranking exactly when the fetch returned non-empty
\* text and rank_suppliers returned a non-empty mapping
StoredOnlyWhenRanked ==
    (s_last.run /\ s_last.op = "rank") =>
        /\ s_last.msg = "stored" <=>
              /\ s_last.text # None /\ s_last.text[1] # <<>>
              /\ s_last.called
              /\ s_last.ranking # None /\ s_last.ranking[1] # <<>>
        /\ s_last.msg = "stored" => ranking_results[s_last.website] = s_last.ranking
        /\ s_last.exc = None

\* C28: every entry stored in the session's ranking_results is a non-empty
\* mapping whose first supplier's score map has a "total" key: a ranking is
\* stored for a website only when the fetch returned non-empty text and
\* rank_suppliers returned a non-empty mapping, so reading the first
\* supplier's total for display never fails.
C28_StoredRankingsDisplayable ==
    /\ \A w \in Websites : ranking_results[w] # None => Displayable(ranking_results[w])
    /\ StoredOnlyWhenRanked
    /\ (s_last.run /\ s_last.op = "display") => s_last.exc = None

\* a ranking of two suppliers is stored for w1 and its first total displayed,
\* nothing is stored for w2
C28_Witness ==
    /\ s_last.run
    /\ s_last.op = "display"
    /\ s_last.website = "w1"
    /\ Len(ranking_results["w1"][1]) = 2
    /\ ranking_results["w2"] = None
    /\ s_last.exc = None
    /\ s_last.total \in {3 * SCALE, 3 * SCALE + 10}

====
